---- MODULE Spec2Model ----
(***************************************************************************)
(* Smart-Favorites backend: the bookmark parser (BookmarkParser), the      *)
(* ChromaDB-backed index (VectorStore), the search pass-through            *)
(* (RAGEngine.search) and the duplicate detector                           *)
(* (AIAnalyzer.detect_duplicates).                                         *)
(*                                                                         *)
(* Strings are modelled as sequences of lexemes: a folder path is a        *)
(* sequence of characters, a title a sequence of words, blanks and         *)
(* separator characters, a URL a sequence of URL lexemes ("http", "://",   *)
(* "www.", a host name, "/", a path segment, "?", a query).  String         *)
(* operations of the code act on these sequences the way the Python        *)
(* operations act on the characters.                                       *)
(***************************************************************************)
EXTENDS Integers, Sequences, FiniteSets, TLC

VARIABLES
    html_content,      \* BookmarkParser: the parsed DOM of the document at hand
    bookmarks_count,   \* BookmarkParser.bookmarks_count
    folders_count,     \* BookmarkParser.folders_count
    parsed,            \* the Collection returned by the last parse (None before)
    client,            \* VectorStore._client is set
    coll,              \* VectorStore._collection is set
    entries,           \* content of the Chroma collection: id -> metadata
    dup_policy,        \* how the embedding store treats a repeated id inside one upsert
    filter_support,    \* whether the embedding store accepts {"$contains": f} in where
    ret,               \* the call that returned last: operation, arguments, outcome
    vector_store,      \* the module global _vector_store: None or the instance it holds
    made,              \* how many VectorStore objects, clients and collection handles
                       \* have been constructed so far
    add,               \* the add_bookmarks call in flight, statement by statement
    chat,              \* the RAGEngine.chat call in flight, waiting for the generation
    analysis,          \* the analyze_categories call in flight, waiting likewise
    active_connections, \* LLMAdapter._active_connections: provider name -> provider name
    last_provider,     \* history: the provider the adapter called last (None before)
    sessions,          \* ChatStorage: the rows of table sessions, by id
    messages,          \* ChatStorage: the rows of table messages
    next_id,           \* history: how many ids ChatSession and ChatMessage have drawn
    api_keys,          \* ConfigManager: the rows of table api_keys, provider -> token
    environ,           \* os.environ as get_api_key reads it: variable -> value or None
    last_set           \* history: the key set last for a provider and not deleted since

vars == <<html_content, bookmarks_count, folders_count, parsed, client, coll,
          entries, dup_policy, filter_support, ret, vector_store, made, add, chat,
          analysis, active_connections, last_provider, sessions, messages, next_id,
          api_keys, environ, last_set>>

parserVars == <<html_content, bookmarks_count, folders_count, parsed>>
storeVars == <<client, coll, entries, dup_policy, filter_support, ret,
               vector_store, made, add>>
chatVars == <<chat>>
adapterVars == <<active_connections, last_provider>>
storageVars == <<sessions, messages, next_id>>
configVars == <<api_keys, environ, last_set>>
serviceVars == <<analysis, adapterVars, storageVars, configVars>>

\* Optional values: None is the empty sequence, a present value x is <<x>>
None == <<>>

Some(x) == <<x>>

----------------------------------------------------------------------------
(* Bounds of the model *)

MaxNodes == 4        \* nodes of a parsed document
MaxList == 2         \* bookmarks passed to one add_bookmarks call
MaxTopK == 2         \* top_k of a search request
MaxBulk == 101       \* bookmarks of the longest bulk import
MaxLinks == 2        \* links of a document whose links carry dates
MaxRows == 3         \* ids drawn for chat sessions and chat messages

----------------------------------------------------------------------------
(* Generic string and sequence helpers *)

Min(a, b) == IF a < b THEN a ELSE b

Max(a, b) == IF a > b THEN a ELSE b

Range(s) == {s[i] : i \in 1..Len(s)}

\* s[:n] of Python
Prefix(s, n) == SubSeq(s, 1, Min(n, Len(s)))

\* sep.join(parts), parts a sequence of strings
RECURSIVE Join(_, _)
Join(parts, sep) ==
    IF Len(parts) = 0 THEN <<>>
    ELSE IF Len(parts) = 1 THEN parts[1]
    ELSE parts[1] \o sep \o Join(Tail(parts), sep)

\* f in s of Python strings: f occurs in s as a contiguous run
Contains(s, f) ==
    \E i \in 0..(Len(s) - Len(f)) : SubSeq(s, i + 1, i + Len(f)) = f

\* str.lower() on lexemes
LowerLexeme(t) ==
    CASE t = "HTTPS" -> "https"
      [] t = "WWW." -> "www."
      [] t = "Example.com" -> "example.com"
      [] t = "Page" -> "page"
      [] t = "Inbox" -> "inbox"
      [] t = "Mail" -> "mail"
      [] t = "Docs" -> "docs"
      [] t = "M" -> "m"
      [] OTHER -> t

Lower(s) == [i \in 1..Len(s) |-> LowerLexeme(s[i])]

\* the sequences over S of length at most n
RECURSIVE SeqsUpTo(_, _)
SeqsUpTo(S, n) ==
    IF n = 0 THEN {<<>>}
    ELSE LET shorter == SeqsUpTo(S, n - 1)
         IN shorter \cup {Append(s, x) : s \in {t \in shorter : Len(t) = n - 1}, x \in S}

----------------------------------------------------------------------------
(* URLs *)

U1 == <<"http", "://", "www.", "example.com", "/", "page">>
U2 == <<"https", "://", "Example.com", "/", "page", "/">>
U3 == <<"https", "://", "example.com", "/", "page", "?", "id=1">>
U4 == <<"https", "://", "mail.", "example.com", "/">>
U5 == <<"https", "://", "other.org", "/", "docs">>
EmptyUrl == <<>>

\* hashlib.md5(url.encode()).hexdigest()[:16] of the URL strings above
Md5Hex16(url) ==
    CASE url = U1 -> "436cfb3e7267556a"
      [] url = U2 -> "452e5fe055ca22c2"
      [] url = U3 -> "e2d64fffae2b5a62"
      [] url = U4 -> "39f39321e778916b"
      [] url = U5 -> "6e10d30578a157a7"
      [] url = EmptyUrl -> "d41d8cd98f00b204"

\* index of the first lexeme of s that is in S, Len(s) + 1 when there is none
RECURSIVE FirstIn(_, _, _)
FirstIn(s, S, i) ==
    IF i > Len(s) THEN Len(s) + 1
    ELSE IF s[i] \in S THEN i
    ELSE FirstIn(s, S, i + 1)

\* urllib.parse.urlparse: scheme://netloc/path?query
Urlparse(url) ==
    LET sep == FirstIn(url, {"://"}, 1)
        hasNetloc == sep <= Len(url)
        rest == IF hasNetloc THEN SubSeq(url, sep + 1, Len(url)) ELSE url
        netEnd == IF hasNetloc THEN FirstIn(rest, {"/", "?", "#"}, 1) ELSE 1
        afterNet == SubSeq(rest, netEnd, Len(rest))
        pathEnd == FirstIn(afterNet, {"?", "#"}, 1)
    IN [scheme |-> IF hasNetloc THEN SubSeq(url, 1, sep - 1) ELSE <<>>,
        netloc |-> SubSeq(rest, 1, netEnd - 1),
        path |-> SubSeq(afterNet, 1, pathEnd - 1),
        query |-> SubSeq(afterNet, pathEnd + 1, Len(afterNet))]

\* s.rstrip(ch)
RECURSIVE Rstrip(_, _)
Rstrip(s, ch) ==
    IF Len(s) > 0 /\ s[Len(s)] = ch THEN Rstrip(SubSeq(s, 1, Len(s) - 1), ch)
    ELSE s

\* s.replace(t, '') for a lexeme t
RemoveAll(s, t) == SelectSeq(s, LAMBDA x : x # t)

----------------------------------------------------------------------------
(* Timestamps.  An attribute value is a sequence of characters; a Python   *)
(* int, which has no width, is a sign and the decimal digits of its        *)
(* magnitude without leading zeros (zero is <<0>>).                        *)

DigitChars == {"0", "1", "2", "3", "4", "5", "6", "7", "8", "9"}

DigitOf(c) ==
    CASE c = "0" -> 0 [] c = "1" -> 1 [] c = "2" -> 2 [] c = "3" -> 3
      [] c = "4" -> 4 [] c = "5" -> 5 [] c = "6" -> 6 [] c = "7" -> 7
      [] c = "8" -> 8 [] c = "9" -> 9

RECURSIVE StripZeros(_)
StripZeros(digits) ==
    IF Len(digits) > 1 /\ digits[1] = 0 THEN StripZeros(Tail(digits)) ELSE digits

Big(neg, digits) == [neg |-> neg /\ StripZeros(digits) # <<0>>, digits |-> StripZeros(digits)]

\* the part of an integer literal after its sign
Unsigned(str) == IF str # <<>> /\ str[1] \in {"-", "+"} THEN Tail(str) ELSE str

\* int(str) accepts a sign followed by decimal digits; anything else among
\* the values drawn here is a ValueError
IsIntLiteral(str) ==
    /\ Unsigned(str) # <<>>
    /\ \A i \in 1..Len(Unsigned(str)) : Unsigned(str)[i] \in DigitChars

IntOf(str) ==
    Big(str[1] = "-", [i \in 1..Len(Unsigned(str)) |-> DigitOf(Unsigned(str)[i])])

\* x < y for magnitudes
MagLess(x, y) ==
    \/ Len(x) < Len(y)
    \/ /\ Len(x) = Len(y)
       /\ \E i \in 1..Len(x) : x[i] < y[i] /\ \A k \in 1..(i - 1) : x[k] = y[k]

\* a < b for integers
BigLess(a, b) ==
    IF a.neg # b.neg THEN a.neg
    ELSE IF a.neg THEN MagLess(b.digits, a.digits)
    ELSE MagLess(a.digits, b.digits)

\* a // 1000 for a >= 0
FloorDiv1000(a) ==
    IF Len(a.digits) <= 3 THEN Big(FALSE, <<0>>)
    ELSE Big(FALSE, SubSeq(a.digits, 1, Len(a.digits) - 3))

\* 9999999999, the largest value read as seconds
MillisecondsAbove == Big(FALSE, [i \in 1..10 |-> 9])

\* the range of time_t: -2^63 .. 2^63 - 1
TimeTMax == Big(FALSE, <<9,2,2,3,3,7,2,0,3,6,8,5,4,7,7,5,8,0,7>>)
TimeTMin == Big(TRUE, <<9,2,2,3,3,7,2,0,3,6,8,5,4,7,7,5,8,0,8>>)

\* the timestamps datetime can hold (years 1 to 9999, local time UTC)
DatetimeMax == Big(FALSE, <<2,5,3,4,0,2,3,0,0,7,9,9>>)
DatetimeMin == Big(TRUE, <<6,2,1,3,5,5,1,0,4,0,0>>)

\* datetime.fromtimestamp(timestamp): OverflowError outside time_t,
\* ValueError or OSError outside the years of datetime
fromtimestamp(timestamp) ==
    IF BigLess(TimeTMax, timestamp) \/ BigLess(timestamp, TimeTMin)
    THEN [error |-> "OverflowError", value |-> None]
    ELSE IF BigLess(DatetimeMax, timestamp) \/ BigLess(timestamp, DatetimeMin)
    THEN [error |-> "ValueError", value |-> None]
    ELSE [error |-> "", value |-> Some([timestamp |-> timestamp])]

\* a _parse_timestamp that reads every value as seconds
parse_timestamp_as_seconds(timestamp_str) ==
    IF timestamp_str = <<>> THEN [raised |-> FALSE, value |-> None]
    ELSE IF ~IsIntLiteral(timestamp_str) THEN [raised |-> FALSE, value |-> None]
    ELSE LET r == fromtimestamp(IntOf(timestamp_str))
         IN IF r.error \in {"ValueError", "OSError"}
            THEN [raised |-> FALSE, value |-> None]
            ELSE [raised |-> r.error # "", value |-> r.value]

\* BookmarkParser._parse_timestamp: the except clause names ValueError and
\* OSError, any other exception leaves the function
parse_timestamp(timestamp_str) ==
    IF timestamp_str = <<>> THEN [raised |-> FALSE, value |-> None]
    ELSE IF ~IsIntLiteral(timestamp_str) THEN [raised |-> FALSE, value |-> None]
    ELSE LET read == IntOf(timestamp_str)
             timestamp == IF BigLess(MillisecondsAbove, read)
                          THEN FloorDiv1000(read) ELSE read
             r == fromtimestamp(timestamp)
         IN IF r.error \in {"ValueError", "OSError"}
            THEN [raised |-> FALSE, value |-> None]
            ELSE [raised |-> r.error # "", value |-> r.value]

----------------------------------------------------------------------------
(* The parsed document (BeautifulSoup tree): html_content[i] is the i-th   *)
(* element in document order; parent = 0 is the top of the document.       *)

FolderNames == {<<"W">>, <<"S">>}

LinkTitle == <<"Inbox">>

Hrefs == {None, Some(EmptyUrl), Some(U1), Some(U2)}

\* add_date is the value of the ADD_DATE attribute, empty when there is none
Element(name, parent, text, href) ==
    [name |-> name, parent |-> parent, text |-> text, href |-> href, add_date |-> <<>>]

\* the elements that may still receive children: the last element and its ancestors
RECURSIVE OpenElements(_, _)
OpenElements(d, n) ==
    IF n = 0 THEN {0} ELSE {n} \cup OpenElements(d, d[n].parent)

\* the elements that can follow d in document order; h3 and a hold text only
NextElements(d) ==
    LET parents == {p \in OpenElements(d, Len(d)) :
                        p = 0 \/ d[p].name \in {"dl", "dt"}}
    IN {Element("dl", p, <<>>, None) : p \in parents}
       \cup {Element("dt", p, <<>>, None) : p \in parents}
       \cup {Element("h3", p, t, None) : p \in parents, t \in FolderNames}
       \cup {Element("a", p, LinkTitle, h) : p \in parents, h \in Hrefs}

RECURSIVE AncestorsOf(_, _)
AncestorsOf(d, n) ==
    IF d[n].parent = 0 THEN {} ELSE {d[n].parent} \cup AncestorsOf(d, d[n].parent)

\* the first dt among element.previous_siblings (nearest first), 0 when none
PreviousDt(d, n) ==
    LET dts == {s \in 1..(n - 1) : d[s].parent = d[n].parent /\ d[s].name = "dt"}
    IN IF dts = {} THEN 0 ELSE CHOOSE s \in dts : \A t \in dts : t <= s

\* element.find('h3'): the first h3 below the element in document order, 0 when none
FindH3(d, n) ==
    LET h3s == {m \in (n + 1)..Len(d) : d[m].name = "h3" /\ n \in AncestorsOf(d, m)}
    IN IF h3s = {} THEN 0 ELSE CHOOSE m \in h3s : \A k \in h3s : m <= k

IsH3(e) == e.name = "h3"

IsLink(e) == e.name = "a" /\ e.href # None

\* the h3 elements that a child list follows, as _parse_folder counts them
FindAllH3WithList(d) ==
    SelectSeq([i \in 1..Len(d) |-> i],
              LAMBDA i : IsH3(d[i]) /\ \E k \in (i + 1)..Len(d) : d[k].name = "dl")

\* soup.find_all('h3'): the h3 elements in document order
FindAllH3(d) == SelectSeq([i \in 1..Len(d) |-> i], LAMBDA i : IsH3(d[i]))

\* soup.find_all('a', href=True): the links that carry an address attribute
FindAllLinks(d) == SelectSeq([i \in 1..Len(d) |-> i], LAMBDA i : IsLink(d[i]))

\* the while loop of _get_folder_path: walk up from current, prepending the
\* name of the folder whose dt precedes each dl on the way
RECURSIVE PathPartsFrom(_, _, _)
PathPartsFrom(d, current, path_parts) ==
    IF current = 0 THEN path_parts
    ELSE LET prev_dt == IF d[current].name = "dl" THEN PreviousDt(d, current) ELSE 0
             prev_h3 == IF prev_dt # 0 THEN FindH3(d, prev_dt) ELSE 0
         IN PathPartsFrom(d, d[current].parent,
                IF prev_h3 # 0 THEN <<d[prev_h3].text>> \o path_parts ELSE path_parts)

get_folder_path(d, h3) ==
    <<"/">> \o Join(PathPartsFrom(d, d[h3].parent, <<d[h3].text>>), <<"/">>) \o <<"/">>

\* folder_map of parse: a dict keyed by the h3 elements.  bs4 compares and
\* hashes elements by their markup, so h3 elements with the same text are
\* one key and the path of the last of them is the one kept.
FolderMap(d) ==
    LET all_h3s == {h \in 1..Len(d) : IsH3(d[h])}
    IN [t \in {d[h].text : h \in all_h3s} |->
            get_folder_path(d, CHOOSE h \in all_h3s :
                /\ d[h].text = t
                /\ \A k \in all_h3s : d[k].text = t => k <= h)]

RECURSIVE BookmarkFolderPathFrom(_, _, _)
BookmarkFolderPathFrom(d, current, folder_map) ==
    IF current = 0 THEN <<"/">>
    ELSE LET prev_dt == IF d[current].name = "dl" THEN PreviousDt(d, current) ELSE 0
             h3 == IF prev_dt # 0 THEN FindH3(d, prev_dt) ELSE 0
         IN IF h3 # 0 /\ d[h3].text \in DOMAIN folder_map
            THEN folder_map[d[h3].text]
            ELSE BookmarkFolderPathFrom(d, d[current].parent, folder_map)

get_bookmark_folder_path(d, a, folder_map) ==
    BookmarkFolderPathFrom(d, d[a].parent, folder_map)

Bookmark(id, title, url, folder_path) ==
    [id |-> id, title |-> title, url |-> url, folder_path |-> folder_path,
     add_date |-> None]

\* a _parse_bookmark that hashes the address of the first link only
parse_bookmark_by_position(d, a, folder_path) ==
    LET url == d[a].href[1]
    IN IF url = EmptyUrl THEN None
       ELSE Some(Bookmark(IF a = FindAllLinks(d)[1] THEN Md5Hex16(url)
                          ELSE Md5Hex16(EmptyUrl),
                          d[a].text, url, folder_path))

\* _parse_bookmark: None when the link has no address, and None when
\* anything inside its try block raises
parse_bookmark(d, a, folder_path) ==
    LET url == d[a].href[1]
    IN IF url = EmptyUrl THEN None
       ELSE LET add_date == parse_timestamp(d[a].add_date)
            IN IF add_date.raised THEN None
               ELSE Some([Bookmark(Md5Hex16(url), d[a].text, url, folder_path)
                            EXCEPT !.add_date = add_date.value])

\* the loop over all_links of parse
RECURSIVE ParseLinks(_, _, _)
ParseLinks(d, links, folder_map) ==
    IF links = <<>> THEN <<>>
    ELSE parse_bookmark(d, links[1], get_bookmark_folder_path(d, links[1], folder_map))
         \o ParseLinks(d, Tail(links), folder_map)

BookmarkFolder(name, path, bookmarks, subfolders) ==
    [name |-> name, path |-> path, bookmarks |-> bookmarks, subfolders |-> subfolders]

\* a parse that does not reset the counters of the parser
ParseResultCarryingOver(d) ==
    LET all_links == FindAllLinks(d)
        all_h3s == FindAllH3(d)
        bookmarks == ParseLinks(d, all_links, FolderMap(d))
        root_folder == BookmarkFolder(<<"Bookmarks">>, <<"/">>, bookmarks, <<>>)
    IN [root |-> root_folder,
        total_bookmarks |-> bookmarks_count + Len(bookmarks),
        total_folders |-> folders_count + Len(all_h3s)]

\* BookmarkParser.parse, as a function of the document
ParseResult(d) ==
    LET all_links == FindAllLinks(d)
        all_h3s == FindAllH3(d)
        bookmarks == ParseLinks(d, all_links, FolderMap(d))
        root_folder == BookmarkFolder(<<"Bookmarks">>, <<"/">>, bookmarks, <<>>)
    IN [root |-> root_folder,
        total_bookmarks |-> 0 + Len(bookmarks),
        total_folders |-> 0 + Len(all_h3s)]

\* BookmarkCollection.get_all_bookmarks
RECURSIVE CollectBookmarks(_)
CollectBookmarks(folder) ==
    LET RECURSIVE OfSubfolders(_)
        OfSubfolders(subs) ==
            IF subs = <<>> THEN <<>>
            ELSE CollectBookmarks(subs[1]) \o OfSubfolders(Tail(subs))
    IN folder.bookmarks \o OfSubfolders(folder.subfolders)

get_all_bookmarks(collection) == CollectBookmarks(collection.root)

\* the paths of the folder nodes reachable from a folder, one per node
RECURSIVE FolderPaths(_)
FolderPaths(folder) ==
    LET RECURSIVE OfSubfolders(_)
        OfSubfolders(subs) ==
            IF subs = <<>> THEN <<>>
            ELSE FolderPaths(subs[1]) \o OfSubfolders(Tail(subs))
    IN <<folder.path>> \o OfSubfolders(folder.subfolders)

----------------------------------------------------------------------------
(* Actions of the parser *)

\* a document one element longer is submitted
EditDocument ==
    /\ Len(html_content) < MaxNodes
    /\ \E e \in NextElements(html_content) : html_content' = Append(html_content, e)
    /\ UNCHANGED <<bookmarks_count, folders_count, parsed>>
    /\ UNCHANGED storeVars
    /\ UNCHANGED chatVars
    /\ UNCHANGED serviceVars

\* ADD_DATE values: seconds from 10^7 to 9999999999 and one below
Seconds == {<<"9", "9", "9", "9", "9", "9", "9">>,
            <<"1", "0", "0", "0", "0", "0", "0", "0">>,
            <<"1", "7", "0", "0", "0", "0", "0", "0", "0", "0">>,
            <<"9", "9", "9", "9", "9", "9", "9", "9", "9", "9">>}

Thousand(str) == str \o <<"0", "0", "0">>

\* the values a link's ADD_DATE takes: none, not a number, a negative
\* number, seconds, the same in milliseconds, a number of milliseconds
\* beyond the years of datetime, and one beyond time_t
AddDateAttributes ==
    {<<>>, <<"a", "b", "c">>, <<"-", "1">>}
    \cup Seconds \cup {Thousand(str) : str \in Seconds}
    \cup {<<"1">> \o [i \in 1..18 |-> "0"], [i \in 1..23 |-> "9"]}

DatedHrefs == {Some(EmptyUrl), Some(U1), Some(U2)}

\* a document one dated link longer is submitted
EditDatedDocument ==
    /\ Len(html_content) < MaxLinks
    /\ \E h \in DatedHrefs, add_date \in AddDateAttributes :
          html_content' = Append(html_content,
              [Element("a", 0, LinkTitle, h) EXCEPT !.add_date = add_date])
    /\ UNCHANGED <<bookmarks_count, folders_count, parsed>>
    /\ UNCHANGED storeVars
    /\ UNCHANGED chatVars
    /\ UNCHANGED serviceVars

\* BookmarkParser.parse(html_content)
Parse ==
    /\ LET collection == ParseResult(html_content)
       IN /\ bookmarks_count' = collection.total_bookmarks
          /\ folders_count' = collection.total_folders
          /\ parsed' = Some(collection)
    /\ UNCHANGED html_content
    /\ UNCHANGED storeVars
    /\ UNCHANGED chatVars
    /\ UNCHANGED serviceVars

----------------------------------------------------------------------------
(* The embedding store (Chroma collection) as the code uses it *)

\* the bookmarks handed to add_bookmarks
B1 == Bookmark(Md5Hex16(U1), <<"Inbox", " ", "-", " ", "Mail">>, U1, <<"/", "W", "/">>)
B2 == Bookmark(Md5Hex16(U2), <<"inbox">>, U2, <<"/", "W", "/", "S", "/">>)
B3 == Bookmark(Md5Hex16(U3), <<"Docs">>, U3, <<"/", "S", "/">>)
B4 == Bookmark(Md5Hex16(U4), <<"Inbox", " ", "|", " ", "M">>, U4, <<"/">>)
B5 == Bookmark("", <<"Docs">>, U4, <<"/", "W", "/">>)
B6 == Bookmark(Md5Hex16(U1), <<"Docs">>, U1, <<"/", "S", "/">>)
B7 == Bookmark(Md5Hex16(U5), <<"Inbox">>, U5, <<"/">>)

Bookmarks == {B1, B2, B3, B4, B5, B6, B7}

BookmarkLists == SeqsUpTo(Bookmarks, MaxList)

TitleLimit == 500
UrlLimit == 1000
FolderPathLimit == 500
PathPartsLimit == 3
batch_size == 100
DuplicateSampleSize == 500

\* [p for p in parsed.path.split('/') if p]
PathSegments(path) == SelectSeq(path, LAMBDA x : x # "/")

\* s.strip('/') on a path
RECURSIVE Lstrip(_, _)
Lstrip(s, ch) ==
    IF Len(s) > 0 /\ s[1] = ch THEN Lstrip(Tail(s), ch) ELSE s

Strip(s, ch) == Rstrip(Lstrip(s, ch), ch)

\* s.replace('/', r) on a path
ReplaceSlash(s, r) == [i \in 1..Len(s) |-> IF s[i] = "/" THEN r ELSE s[i]]

\* VectorStore._create_document_text: the parts joined by blanks
create_document_text(bookmark) ==
    LET parsed_url == Urlparse(bookmark.url)
        segs == PathSegments(parsed_url.path)
        parts ==
            (IF bookmark.title # <<>> THEN <<bookmark.title>> ELSE <<>>)
            \o (IF bookmark.url # <<>>
                THEN <<parsed_url.netloc>>
                     \o [i \in 1..Min(PathPartsLimit, Len(segs)) |-> <<segs[i]>>]
                ELSE <<>>)
            \o (IF bookmark.folder_path # <<>> /\ bookmark.folder_path # <<"/">>
                THEN <<ReplaceSlash(Strip(bookmark.folder_path, "/"), " ")>>
                ELSE <<>>)
    IN Join(parts, <<" ">>)

\* the metadata dict built per bookmark by add_bookmarks
MetadataOf(bookmark) ==
    [title |-> IF bookmark.title # <<>> THEN Prefix(bookmark.title, TitleLimit) ELSE <<>>,
     url |-> IF bookmark.url # <<>> THEN Prefix(bookmark.url, UrlLimit) ELSE <<>>,
     folder_path |-> IF bookmark.folder_path # <<>>
                     THEN Prefix(bookmark.folder_path, FolderPathLimit)
                     ELSE <<"/">>]

\* the ids/documents/metadatas lists built by add_bookmarks: one row per
\* bookmark with a non-empty id
Rows(bookmarks) ==
    LET kept == SelectSeq(bookmarks, LAMBDA bookmark : bookmark.id # "")
    IN [k \in 1..Len(kept) |->
            [id |-> kept[k].id,
             document |-> create_document_text(kept[k]),
             metadata |-> MetadataOf(kept[k])]]

HasRepeatedId(rows) ==
    Cardinality({rows[k].id : k \in 1..Len(rows)}) < Len(rows)

\* an upsert that stores a second copy when the id is already there
RECURSIVE UpsertAddingCopies(_, _)
UpsertAddingCopies(content, rows) ==
    IF rows = <<>> THEN content
    ELSE LET row == rows[1]
             key == IF row.id \in DOMAIN content THEN "copy" ELSE row.id
             written == [id \in DOMAIN content \cup {key} |->
                            IF id = key
                            THEN [document |-> row.document, metadata |-> row.metadata]
                            ELSE content[id]]
         IN UpsertAddingCopies(written, Tail(rows))

\* collection.upsert(ids, documents, metadatas) that succeeds: each row is
\* written under its id, a later row replacing an earlier one with the same id
Upsert(content, rows) ==
    LET written == {rows[k].id : k \in 1..Len(rows)}
        Last(id) == LET at == {k \in 1..Len(rows) : rows[k].id = id}
                    IN CHOOSE k \in at : \A m \in at : m <= k
    IN [id \in DOMAIN content \cup written |->
            IF id \in written
            THEN [document |-> rows[Last(id)].document, metadata |-> rows[Last(id)].metadata]
            ELSE content[id]]

\* whether the store rejects this upsert for what it contains
UpsertRejected(rows) == dup_policy = "raise" /\ HasRepeatedId(rows)

EmptyCollection == [id \in {} |-> [document |-> <<>>, metadata |-> MetadataOf(B1)]]

\* the batches loop of add_bookmarks from index i (0-based as in the code):
\* fails[k] tells whether the store raises on the k-th batch
RECURSIVE WriteBatches(_, _, _, _, _)
WriteBatches(content, rows, i, fails, added) ==
    IF i >= Len(rows) THEN [content |-> content, added |-> added]
    ELSE LET batch == SubSeq(rows, i + 1, Min(i + batch_size, Len(rows)))
             k == (i \div batch_size) + 1
             raised == fails[k] \/ UpsertRejected(batch)
         IN WriteBatches(IF raised THEN content ELSE Upsert(content, batch),
                         rows, i + batch_size, fails,
                         IF raised THEN added ELSE added + Len(batch))

NumBatches(rows) == (Len(rows) + batch_size - 1) \div batch_size

----------------------------------------------------------------------------
(* VectorStore: lazy connection, writes and queries *)

\* an _ensure_collection that asks for the collection on every call
EnsureOutcomesAlwaysCreating ==
    LET made_client == IF client THEN 0 ELSE 1
    IN (IF client THEN {}
        ELSE {[client |-> FALSE, coll |-> FALSE, ok |-> FALSE,
               made_client |-> 0, made_coll |-> 0]})
       \cup {[client |-> TRUE, coll |-> coll, ok |-> FALSE,
              made_client |-> made_client, made_coll |-> 0],
             [client |-> TRUE, coll |-> TRUE, ok |-> TRUE,
              made_client |-> made_client, made_coll |-> 1]}

\* _ensure_collection: the ways the call can end.  The client and the
\* collection are created only while missing; each creation can raise.
\* made_client and made_coll count the constructor calls that succeeded.
EnsureOutcomes ==
    LET made_client == IF client THEN 0 ELSE 1
    IN IF coll
       THEN {[client |-> TRUE, coll |-> TRUE, ok |-> TRUE,
              made_client |-> made_client, made_coll |-> 0]}
       ELSE (IF client THEN {}
             ELSE {[client |-> FALSE, coll |-> FALSE, ok |-> FALSE,
                    made_client |-> 0, made_coll |-> 0]})
            \cup {[client |-> TRUE, coll |-> FALSE, ok |-> FALSE,
                   made_client |-> made_client, made_coll |-> 0],
                  [client |-> TRUE, coll |-> TRUE, ok |-> TRUE,
                   made_client |-> made_client, made_coll |-> 1]}

\* the constructions counted after an _ensure_collection that ended as e
MadeAfter(e) ==
    [made EXCEPT !.client = @ + e.made_client, !.coll = @ + e.made_coll]

\* a replace branch that deletes nothing
ClearNothing(content, replace, clear_fails) == content

\* the replace branch of add_bookmarks: get() and delete(ids=...) inside
\* try/except; a failure is logged and leaves the entries in place
ClearForReplace(content, replace, clear_fails) ==
    IF replace /\ ~clear_fails THEN EmptyCollection ELSE content

\* a reader that also waits for the import in flight
IdleAndNoImport == ret.op = "none" /\ add.pc = "idle"

\* the route handlers are coroutines that never yield while they use the
\* index: a call starts only when the previous one has returned
Idle == ret.op = "none"

\* the callers reach the index through the instance that get_vector_store
\* handed out (RAGEngine and AIAnalyzer keep it from their construction on)
HoldsStore == vector_store # None

\* VectorStore.add_bookmarks(bookmarks, replace): the ways the call can end
AddOutcomes(bookmarks, replace) ==
    UNION {
      IF ~e.ok
      THEN {[client |-> e.client, coll |-> e.coll, ensured |-> e, entries |-> entries,
             raised |-> TRUE, result |-> 0, clear_failed |-> FALSE,
             batch_failed |-> FALSE]}
      ELSE UNION {
             LET cleared == ClearForReplace(entries, replace, clear_fails)
                 rows == Rows(bookmarks)
             IN IF bookmarks = <<>>
                THEN {[client |-> e.client, coll |-> e.coll, ensured |-> e, entries |-> cleared,
                       raised |-> FALSE, result |-> 0, clear_failed |-> clear_fails,
                       batch_failed |-> FALSE]}
                ELSE {LET w == WriteBatches(cleared, rows, 0, fails, 0)
                      IN [client |-> e.client, coll |-> e.coll, ensured |-> e, entries |-> w.content,
                          raised |-> FALSE, result |-> w.added,
                          clear_failed |-> clear_fails,
                          batch_failed |-> w.added # Len(rows)]
                      : fails \in [1..NumBatches(rows) -> BOOLEAN]}
             : clear_fails \in (IF replace THEN BOOLEAN ELSE {FALSE})}
      : e \in EnsureOutcomes}

AddBookmarks(bookmarks, replace) ==
    /\ Idle
    /\ HoldsStore
    /\ \E o \in AddOutcomes(bookmarks, replace) :
        /\ client' = o.client
        /\ coll' = o.coll
        /\ made' = MadeAfter(o.ensured)
        /\ entries' = o.entries
        /\ ret' = [op |-> "add_bookmarks", bookmarks |-> bookmarks,
                   replace |-> replace, raised |-> o.raised, result |-> o.result,
                   clear_failed |-> o.clear_failed, batch_failed |-> o.batch_failed]
    /\ UNCHANGED <<dup_policy, filter_support, vector_store, add, chat>>
    /\ UNCHANGED parserVars
    /\ UNCHANGED serviceVars

\* the documents handed to import_bookmarks: links at the top of the
\* document, with an address or without
IngestDocuments == SeqsUpTo({Element("a", 0, LinkTitle, h) : h \in Hrefs}, MaxLinks)

\* RAGEngine.import_bookmarks(html_content, replace): parse, then
\* add_bookmarks with the bookmarks parsed.  markup is None for a value
\* BeautifulSoup raises on; parse has reset its counters by then.
ImportBookmarks(markup, replace) ==
    /\ Idle
    /\ HoldsStore
    /\ IF markup = None
       THEN /\ bookmarks_count' = 0
            /\ folders_count' = 0
            /\ UNCHANGED <<html_content, parsed>>
            /\ UNCHANGED <<client, coll, made, entries>>
            /\ ret' = [op |-> "import_bookmarks", replace |-> replace,
                       parse_raised |-> TRUE, raised |-> TRUE, bookmarks |-> <<>>,
                       before |-> entries, clear_failed |-> FALSE, result |-> None]
       ELSE LET collection == ParseResult(markup[1])
                bookmarks == get_all_bookmarks(collection)
            IN /\ html_content' = markup[1]
               /\ bookmarks_count' = collection.total_bookmarks
               /\ folders_count' = collection.total_folders
               /\ parsed' = Some(collection)
               /\ \E o \in AddOutcomes(bookmarks, replace) :
                    /\ client' = o.client
                    /\ coll' = o.coll
                    /\ made' = MadeAfter(o.ensured)
                    /\ entries' = o.entries
                    /\ ret' = [op |-> "import_bookmarks", replace |-> replace,
                               parse_raised |-> FALSE, raised |-> o.raised,
                               bookmarks |-> bookmarks, before |-> entries,
                               clear_failed |-> o.clear_failed,
                               result |-> IF o.raised THEN None
                                          ELSE Some(<<o.result, collection.total_folders>>)]
    /\ UNCHANGED <<dup_policy, filter_support, vector_store, add, chat>>
    /\ UNCHANGED serviceVars

\* VectorStore.delete_all
DeleteAll ==
    /\ Idle
    /\ HoldsStore
    /\ \E e \in EnsureOutcomes :
        /\ client' = e.client
        /\ coll' = e.coll
        /\ made' = MadeAfter(e)
        /\ IF ~e.ok
           THEN /\ entries' = entries
                /\ ret' = [op |-> "delete_all", raised |-> TRUE]
           ELSE \E fails \in BOOLEAN :
                /\ entries' = IF fails THEN entries ELSE EmptyCollection
                /\ ret' = [op |-> "delete_all", raised |-> FALSE]
    /\ UNCHANGED <<dup_policy, filter_support, vector_store, add, chat>>
    /\ UNCHANGED parserVars
    /\ UNCHANGED serviceVars

\* VectorStore.get_count
GetCount ==
    /\ Idle
    /\ HoldsStore
    /\ \E e \in EnsureOutcomes :
        /\ client' = e.client
        /\ coll' = e.coll
        /\ made' = MadeAfter(e)
        /\ \E fails \in BOOLEAN :
            ret' = IF ~e.ok \/ fails
                   THEN [op |-> "get_count", raised |-> TRUE]
                   ELSE [op |-> "get_count", raised |-> FALSE,
                         result |-> Cardinality(DOMAIN entries)]
    /\ UNCHANGED <<entries, dup_policy, filter_support, vector_store, add, chat>>
    /\ UNCHANGED parserVars
    /\ UNCHANGED serviceVars

\* get_vector_store(): the instance held by the module global, constructed on
\* the first call; instances are numbered in the order of their construction
GetVectorStore ==
    /\ Idle
    /\ LET instance == IF vector_store = None THEN Some(made.instance + 1)
                       ELSE vector_store
       IN /\ vector_store' = instance
          /\ made' = [made EXCEPT !.instance = IF vector_store = None THEN @ + 1 ELSE @]
          /\ ret' = [op |-> "get_vector_store", raised |-> FALSE, result |-> instance[1]]
    /\ UNCHANGED <<client, coll, entries, dup_policy, filter_support, add, chat>>
    /\ UNCHANGED parserVars
    /\ UNCHANGED serviceVars

\* the handler returns and its result goes to the caller
Respond ==
    /\ ~Idle
    /\ ret' = [op |-> "none"]
    /\ UNCHANGED <<client, coll, entries, dup_policy, filter_support,
                   vector_store, made, add, chat>>
    /\ UNCHANGED parserVars
    /\ UNCHANGED serviceVars

\* distances the store reports, in halves; 4 halves = distance 2
Distances == {0, 1, 5}

\* a conversion without the lower clamp
ScoreUnclamped(distance) == 4 - distance

\* score = max(0, 1 - (distance / 2)), in quarters
Score(distance) == Max(0, 4 - distance)

\* the entries a where filter lets through
Matching(content, where_filter) ==
    IF where_filter = None THEN DOMAIN content
    ELSE {id \in DOMAIN content :
              Contains(content[id].metadata.folder_path, where_filter[1])}

\* the ids collection.query can answer with: n_results of the matching
\* entries (all of them when fewer), nearest first; which are nearest is
\* the embedding's business
QueryIds(content, n_results, where_filter) ==
    LET matching == Matching(content, where_filter)
        n == Min(n_results, Cardinality(matching))
    IN {ids \in [1..n -> matching] : \A i, j \in 1..n : i # j => ids[i] # ids[j]}

\* the distances that come with n ids: never decreasing
QueryDistances(n) ==
    {ds \in [1..n -> Distances] : \A i \in 1..(n - 1) : ds[i] <= ds[i + 1]}

\* a loop that prepends each pair instead of appending it
BookmarksWithScoresReversed(content, ids, distances) ==
    [i \in 1..Len(ids) |->
        LET k == Len(ids) + 1 - i
        IN [bookmark |-> Bookmark(ids[k], content[ids[k]].metadata.title,
                                  content[ids[k]].metadata.url,
                                  content[ids[k]].metadata.folder_path),
            score |-> Score(distances[k])]]

\* the loop of search that turns a query answer into (bookmark, score) pairs
BookmarksWithScores(content, ids, distances) ==
    [i \in 1..Len(ids) |->
        [bookmark |-> Bookmark(ids[i], content[ids[i]].metadata.title,
                               content[ids[i]].metadata.url,
                               content[ids[i]].metadata.folder_path),
         score |-> Score(distances[i])]]

\* whether the store rejects the where clause of a query
WhereRejected(where_filter) == where_filter # None /\ filter_support = "rejected"

\* a search that never builds the where clause
WhereFilterDropped(folder_filter) == None

\* where_filter of search: set only for a non-empty folder_filter
WhereFilter(folder_filter) ==
    IF folder_filter # None /\ folder_filter[1] # <<>> THEN folder_filter ELSE None

\* VectorStore.search(query, top_k, folder_filter): the ways the call can
\* end, with the handles it leaves behind
SearchOutcomes(query, top_k, folder_filter) ==
    LET where_filter == WhereFilter(folder_filter)
    IN UNION {
         IF ~e.ok
         THEN {[client |-> e.client, coll |-> e.coll, ensured |-> e, raised |-> TRUE,
                distances |-> <<>>, result |-> <<>>]}
         ELSE {[client |-> e.client, coll |-> e.coll, ensured |-> e, raised |-> FALSE,
                distances |-> <<>>, result |-> <<>>]}
              \cup (IF WhereRejected(where_filter) THEN {}
                    ELSE {[client |-> e.client, coll |-> e.coll, ensured |-> e,
                           raised |-> FALSE, distances |-> ds,
                           result |-> BookmarksWithScores(entries, ids, ds)] :
                             ids \in QueryIds(entries, top_k, where_filter),
                             ds \in QueryDistances(Min(top_k,
                                     Cardinality(Matching(entries, where_filter))))})
         : e \in EnsureOutcomes}

Queries == {<<>>, <<"mail">>}

FolderFilters == {None, Some(<<>>), Some(<<"/", "W", "/">>), Some(<<"S">>)}

\* VectorStore.search
Search(query, top_k, folder_filter) ==
    /\ Idle
    /\ HoldsStore
    /\ \E o \in SearchOutcomes(query, top_k, folder_filter) :
        /\ client' = o.client
        /\ coll' = o.coll
        /\ made' = MadeAfter(o.ensured)
        /\ ret' = [op |-> "search", query |-> query, top_k |-> top_k,
                   folder_filter |-> folder_filter, raised |-> o.raised,
                   distances |-> o.distances, result |-> o.result]
    /\ UNCHANGED <<entries, dup_policy, filter_support, vector_store, add, chat>>
    /\ UNCHANGED parserVars
    /\ UNCHANGED serviceVars

\* RAGEngine.search: VectorStore.search, each pair wrapped in a SearchResult
RagSearch(query, top_k, folder_filter) ==
    /\ Idle
    /\ HoldsStore
    /\ \E o \in SearchOutcomes(query, top_k, folder_filter) :
        /\ client' = o.client
        /\ coll' = o.coll
        /\ made' = MadeAfter(o.ensured)
        /\ ret' = [op |-> "rag_search", query |-> query, top_k |-> top_k,
                   folder_filter |-> folder_filter, raised |-> o.raised,
                   distances |-> o.distances,
                   result |-> [i \in 1..Len(o.result) |->
                                 [bookmark |-> o.result[i].bookmark,
                                  score |-> o.result[i].score,
                                  highlights |-> <<>>]]]
    /\ UNCHANGED <<entries, dup_policy, filter_support, vector_store, add, chat>>
    /\ UNCHANGED parserVars
    /\ UNCHANGED serviceVars

----------------------------------------------------------------------------
(* VectorStore.add_bookmarks statement by statement, for callers that do   *)
(* not wait for each other: VectorStore takes no lock, and each call to    *)
(* the collection (get and delete, upsert, query) is one step.             *)

\* the k-th bookmark of a bulk import of n: the first and the last are filed
\* under /W/, the others at the top; the ones at gaps come without id
BulkBookmark(k, n, gaps) ==
    Bookmark(IF k \in gaps THEN "" ELSE ToString(k), <<"Docs">>, U5,
             IF k \in {1, n} THEN <<"/", "W", "/">> ELSE <<"/">>)

BulkList(n, gaps) == [k \in 1..n |-> BulkBookmark(k, n, gaps)]

BulkSizes == {0, 1, MaxBulk}

BulkLists == {BulkList(n, gaps) : n \in BulkSizes, gaps \in {{}, {2}}}

\* a slice that runs to the end of the lists
BatchOfAllTheRest(rows, i) == SubSeq(rows, i + 1, Len(rows))

\* ids[i:i + batch_size] and its companions
Batch(rows, i) == SubSeq(rows, i + 1, Min(i + batch_size, Len(rows)))

\* a loop that leaves at the first batch the store refuses
AfterBatchGivingUp(call, raised) ==
    LET batch == Batch(Rows(call.bookmarks), call.i)
    IN [call EXCEPT !.i = IF raised THEN Len(Rows(call.bookmarks)) ELSE @ + batch_size,
                    !.added = IF raised THEN @ ELSE @ + Len(batch),
                    !.writes = Append(@, [ids |-> [k \in 1..Len(batch) |-> batch[k].id],
                                           ok |-> ~raised])]

\* one turn of the batch loop: the upsert is issued, added grows by the size
\* of the batch unless the upsert raised, and the loop moves on either way
AfterBatch(call, raised) ==
    LET batch == Batch(Rows(call.bookmarks), call.i)
    IN [call EXCEPT !.i = @ + batch_size,
                    !.added = IF raised THEN @ ELSE @ + Len(batch),
                    !.writes = Append(@, [ids |-> [k \in 1..Len(batch) |-> batch[k].id],
                                           ok |-> ~raised])]

InFlight == add.pc \in {"clear", "build", "batch"}

\* add_bookmarks is entered: _ensure_collection() outside any try
AddCall(bookmarks, replace) ==
    /\ add.pc = "idle"
    /\ HoldsStore
    /\ \E e \in EnsureOutcomes :
        /\ client' = e.client
        /\ coll' = e.coll
        /\ made' = MadeAfter(e)
        /\ add' = [pc |-> IF ~e.ok THEN "done" ELSE IF replace THEN "clear" ELSE "build",
                   bookmarks |-> bookmarks, replace |-> replace,
                   existing |-> None, clear_failed |-> FALSE, i |-> 0,
                   added |-> 0, writes |-> <<>>, raised |-> ~e.ok, result |-> 0]
    /\ UNCHANGED <<entries, dup_policy, filter_support, ret, vector_store, chat>>
    /\ UNCHANGED parserVars
    /\ UNCHANGED serviceVars

\* the replace branch: existing = get(), delete(ids=existing['ids']), a
\* failure of either being logged
AddClear ==
    /\ add.pc = "clear"
    /\ \E clear_fails \in BOOLEAN :
        /\ entries' = ClearForReplace(entries, add.replace, clear_fails)
        /\ add' = [add EXCEPT !.pc = "build",
                              !.existing = IF clear_fails THEN None ELSE Some(entries),
                              !.clear_failed = clear_fails]
    /\ UNCHANGED <<client, coll, dup_policy, filter_support, ret, vector_store, made, chat>>
    /\ UNCHANGED parserVars
    /\ UNCHANGED serviceVars

\* return 0 for no bookmarks, else the ids, documents and metadatas lists
\* (Rows of the bookmarks of the call)
AddBuild ==
    /\ add.pc = "build"
    /\ add' = IF add.bookmarks = <<>>
              THEN [add EXCEPT !.pc = "done", !.result = 0]
              ELSE [add EXCEPT !.pc = "batch"]
    /\ UNCHANGED <<client, coll, entries, dup_policy, filter_support, ret,
                   vector_store, made, chat>>
    /\ UNCHANGED parserVars
    /\ UNCHANGED serviceVars

\* one turn of the batch loop
AddBatch ==
    /\ add.pc = "batch"
    /\ add.i < Len(Rows(add.bookmarks))
    /\ \E fails \in BOOLEAN :
        LET batch == Batch(Rows(add.bookmarks), add.i)
            raised == fails \/ UpsertRejected(batch)
        IN /\ entries' = IF raised THEN entries ELSE Upsert(entries, batch)
           /\ add' = AfterBatch(add, raised)
    /\ UNCHANGED <<client, coll, dup_policy, filter_support, ret, vector_store, made, chat>>
    /\ UNCHANGED parserVars
    /\ UNCHANGED serviceVars

\* the loop is over: return added
AddReturn ==
    /\ add.pc = "batch"
    /\ add.i >= Len(Rows(add.bookmarks))
    /\ add' = [add EXCEPT !.pc = "done", !.result = add.added]
    /\ UNCHANGED <<client, coll, entries, dup_policy, filter_support, ret,
                   vector_store, made, chat>>
    /\ UNCHANGED parserVars
    /\ UNCHANGED serviceVars

\* the caller has taken the result (or the exception) of add_bookmarks
AddRespond ==
    /\ add.pc = "done"
    /\ add' = [pc |-> "idle"]
    /\ UNCHANGED <<client, coll, entries, dup_policy, filter_support, ret,
                   vector_store, made, chat>>
    /\ UNCHANGED parserVars
    /\ UNCHANGED serviceVars

----------------------------------------------------------------------------
(* RAGEngine.chat and LLMAdapter.chat.  The fixed texts of the prompt are  *)
(* single lexemes named after what they say.                               *)

\* the text _build_context returns for no bookmarks ("no related bookmarks found")
NoResultsMarker == <<"(no related bookmarks found)">>

\* one numbered entry of the context: title, URL and, below a folder, the
\* category; the bookmarks that search builds from the index carry no tags
ContextLine(i, bookmark) ==
    <<ToString(i), ". title: ">> \o bookmark.title
    \o <<"\n   URL: ">> \o bookmark.url
    \o (IF bookmark.folder_path # <<>> /\ bookmark.folder_path # <<"/">>
        THEN <<"\n   category: ">> \o Strip(bookmark.folder_path, "/")
        ELSE <<>>)

\* a context that is the joined entries whatever their number
build_context_without_marker(bookmarks) ==
    Join([i \in 1..Len(bookmarks) |-> ContextLine(i, bookmarks[i])], <<"\n\n">>)

\* RAGEngine._build_context
build_context(bookmarks) ==
    IF bookmarks = <<>> THEN NoResultsMarker
    ELSE Join([i \in 1..Len(bookmarks) |-> ContextLine(i, bookmarks[i])], <<"\n\n">>)

\* the content of the user message: heading, context, question
UserContent(context, message) ==
    <<"reference bookmarks:\n">> \o context \o <<"\n\nquestion: ">> \o message

\* the messages list of chat
MessagesOf(sources, message) ==
    <<[role |-> "system", content |-> <<"SYSTEM_PROMPT">>],
      [role |-> "user", content |-> UserContent(build_context(sources), message)]>>

\* LLMAdapter.providers
Providers == {"openai", "deepseek", "kimi", "qwen", "claude", "gemini", "glm", "ollama"}

\* ConfigManager.get_default_provider with nothing stored
default_provider == "deepseek"

ProviderArguments == {None, Some("openai"), Some("nonesuch")}

\* what a provider can answer with
Answers == {<<"answer">>, <<>>}

\* an adapter that asks the provider a second time when the first call raised
LlmOutcomesRetrying(provider) ==
    LET provider_name == IF provider # None THEN provider[1] ELSE default_provider
    IN IF provider_name \notin Providers
       THEN {[kind |-> "unknown_provider", raised |-> TRUE, invoked |-> 0, response |-> None]}
       ELSE {[kind |-> "not_configured", raised |-> TRUE, invoked |-> 0, response |-> None],
             [kind |-> "failed", raised |-> TRUE, invoked |-> 2, response |-> None]}
            \cup {[kind |-> "answered", raised |-> FALSE, invoked |-> n,
                   response |-> Some([content |-> answer, model |-> <<provider_name, "-model">>,
                                      provider |-> provider_name])]
                  : answer \in Answers, n \in {1, 2}}

\* LLMAdapter.chat: the ways the call can end and how often it has called
\* the provider's chat.  Whether the provider has an API key is the
\* configuration of the moment.
LlmOutcomes(provider) ==
    LET provider_name == IF provider # None THEN provider[1] ELSE default_provider
    IN IF provider_name \notin Providers
       THEN {[kind |-> "unknown_provider", raised |-> TRUE, invoked |-> 0, response |-> None]}
       ELSE {[kind |-> "not_configured", raised |-> TRUE, invoked |-> 0, response |-> None],
             [kind |-> "failed", raised |-> TRUE, invoked |-> 1, response |-> None]}
            \cup {[kind |-> "answered", raised |-> FALSE, invoked |-> 1,
                   response |-> Some([content |-> answer, model |-> <<provider_name, "-model">>,
                                      provider |-> provider_name])]
                  : answer \in Answers}

ProviderName(provider) == IF provider # None THEN provider[1] ELSE default_provider

\* the providers LLMAdapter.chat closes before it looks up the one asked
\* for: the entry found under the name asked for, when it is another name
ClosedOnSwitch(active, provider_name) ==
    IF /\ provider_name \in DOMAIN active
       /\ active[provider_name] # ""
       /\ active[provider_name] # provider_name
    THEN {active[provider_name]}
    ELSE {}

\* _active_connections[provider_name] = provider_name, reached when the
\* provider is known and configured
ActiveAfter(active, provider_name, kind) ==
    IF kind \in {"unknown_provider", "not_configured"} THEN active
    ELSE [n \in DOMAIN active \cup {provider_name} |->
            IF n = provider_name THEN provider_name ELSE active[n]]

LastAfter(last, provider_name, invoked) ==
    IF invoked > 0 THEN Some(provider_name) ELSE last

\* LLMAdapter.chat called on its own
LlmChat(provider) ==
    /\ ret.op = "none"
    /\ \E g \in LlmOutcomes(provider) :
        /\ ret' = [op |-> "llm_chat", provider_name |-> ProviderName(provider),
                   previous |-> last_provider,
                   closed |-> ClosedOnSwitch(active_connections, ProviderName(provider)),
                   raised |-> g.raised, outcome |-> g.kind, invoked |-> g.invoked,
                   response |-> g.response]
        /\ active_connections' =
              ActiveAfter(active_connections, ProviderName(provider), g.kind)
        /\ last_provider' = LastAfter(last_provider, ProviderName(provider), g.invoked)
    /\ UNCHANGED <<client, coll, entries, dup_policy, filter_support,
                   vector_store, made, add, chat>>
    /\ UNCHANGED parserVars
    /\ UNCHANGED <<analysis, storageVars, configVars>>

\* a return value that leaves out the last source
ReturnedSourcesCut(sources, include_sources) ==
    IF include_sources THEN SubSeq(sources, 1, Len(sources) - 1) ELSE <<>>

\* sources if include_sources else []
ReturnedSources(sources, include_sources) ==
    IF include_sources THEN sources ELSE <<>>

\* chat up to its await: the search, the sources, the context, the messages
ChatRetrieve(message, provider, include_sources, top_k) ==
    /\ Idle
    /\ HoldsStore
    /\ chat.pc = "idle"
    /\ \E o \in SearchOutcomes(message, top_k, None) :
        /\ client' = o.client
        /\ coll' = o.coll
        /\ made' = MadeAfter(o.ensured)
        /\ IF o.raised
           THEN /\ chat' = chat
                /\ ret' = [op |-> "chat", raised |-> TRUE, outcome |-> "retrieval_raised",
                           invoked |-> 0, include_sources |-> include_sources,
                           retrieved |-> None, request |-> None, generated |-> None,
                           result |-> None]
           ELSE LET sources == [i \in 1..Len(o.result) |-> o.result[i].bookmark]
                IN /\ chat' = [pc |-> "generate", message |-> message,
                               provider |-> provider,
                               include_sources |-> include_sources,
                               sources |-> sources,
                               messages |-> MessagesOf(sources, message)]
                   /\ ret' = ret
    /\ UNCHANGED <<entries, dup_policy, filter_support, vector_store, add>>
    /\ UNCHANGED parserVars
    /\ UNCHANGED serviceVars

\* chat from its await on: the answer of LLMAdapter.chat, returned with the
\* sources, or its exception, logged and raised again
ChatGenerate ==
    /\ Idle
    /\ chat.pc = "generate"
    /\ \E g \in LlmOutcomes(chat.provider) :
        /\ ret' = [op |-> "chat", raised |-> g.raised, outcome |-> g.kind,
                invoked |-> g.invoked, include_sources |-> chat.include_sources,
                retrieved |-> Some(chat.sources), request |-> Some(chat.messages),
                generated |-> g.response,
                result |-> IF g.raised THEN None
                           ELSE Some([response |-> g.response[1].content,
                                      sources |-> ReturnedSources(chat.sources,
                                                                  chat.include_sources),
                                      model |-> g.response[1].model,
                                      provider |-> g.response[1].provider])]
        /\ active_connections' =
              ActiveAfter(active_connections, ProviderName(chat.provider), g.kind)
        /\ last_provider' = LastAfter(last_provider, ProviderName(chat.provider), g.invoked)
    /\ chat' = [pc |-> "idle"]
    /\ UNCHANGED <<client, coll, entries, dup_policy, filter_support,
                   vector_store, made, add>>
    /\ UNCHANGED parserVars
    /\ UNCHANGED <<analysis, storageVars, configVars>>

----------------------------------------------------------------------------
(* AIAnalyzer: duplicate detection *)

\* AIAnalyzer._normalize_url
normalize_url(url) ==
    IF url = <<>> THEN <<>>
    ELSE LET parsed_url == Urlparse(Lower(url))
             netloc == RemoveAll(parsed_url.netloc, "www.")
             path == Rstrip(parsed_url.path, "/")
         IN netloc \o path

\* re.sub(r'\s*[-|].*$', '', title): cut at the first '-' or '|', together
\* with the blanks right before it
CutSuffix(title) ==
    LET sep == FirstIn(title, {"-", "|"}, 1)
    IN IF sep > Len(title) THEN title
       ELSE Rstrip(SubSeq(title, 1, sep - 1), " ")

\* ' '.join(s.split()): no blanks at either end, one blank between words
RECURSIVE CollapseBlanks(_)
CollapseBlanks(s) ==
    LET t == Lstrip(s, " ")
    IN IF t = <<>> THEN <<>>
       ELSE LET gap == FirstIn(t, {" "}, 1)
                rest == CollapseBlanks(SubSeq(t, gap, Len(t)))
            IN SubSeq(t, 1, gap - 1) \o (IF rest = <<>> THEN <<>> ELSE <<" ">> \o rest)

\* AIAnalyzer._normalize_title
normalize_title(title) ==
    IF title = <<>> THEN <<>> ELSE CollapseBlanks(Lower(CutSuffix(title)))

\* a defaultdict(list) filled in one pass, keys[i] being the key of items[i]:
\* the keys in order of first appearance, each with its items in order; an
\* item whose key is None is left out
RECURSIVE GroupBy(_, _, _)
GroupBy(items, keys, groups) ==
    IF items = <<>> THEN groups
    ELSE LET k == keys[1]
             at == {g \in 1..Len(groups) : groups[g].key = k}
         IN GroupBy(Tail(items), Tail(keys),
                IF k = None THEN groups
                ELSE IF at = {}
                THEN Append(groups, [key |-> k, items |-> <<items[1]>>])
                ELSE [g \in 1..Len(groups) |->
                        IF g \in at
                        THEN [key |-> k, items |-> Append(groups[g].items, items[1])]
                        ELSE groups[g]])

\* the key of url_groups: every bookmark has one
UrlKey(bookmark) == Some(normalize_url(bookmark.url))

\* the key of title_groups: none when the normalized title is empty
TitleKey(bookmark) ==
    IF normalize_title(bookmark.title) = <<>> THEN None
    ELSE Some(normalize_title(bookmark.title))

IdsOf(items) == [i \in 1..Len(items) |-> items[i].id]

DuplicateGroup(items, similarity_type) ==
    [title |-> items[1].title,
     url |-> items[1].url,
     count |-> Len(items),
     locations |-> [i \in 1..Len(items) |-> items[i].folder_path],
     bookmark_ids |-> IdsOf(items),
     suggestion |-> [count |-> Len(items),
                     advice |-> IF similarity_type = "exact_url"
                                THEN "keep_one" ELSE "check_merge"],
     similarity_type |-> similarity_type]

\* an exact URL loop that does not record the ids it has grouped
RECURSIVE ExactUrlPassForgetful(_, _, _)
ExactUrlPassForgetful(url_groups, duplicates, seen_ids) ==
    IF url_groups = <<>> THEN [duplicates |-> duplicates, seen_ids |-> seen_ids]
    ELSE LET items == url_groups[1].items
         IN IF Len(items) > 1
            THEN ExactUrlPassForgetful(Tail(url_groups),
                     Append(duplicates, DuplicateGroup(items, "exact_url")), seen_ids)
            ELSE ExactUrlPassForgetful(Tail(url_groups), duplicates, seen_ids)

\* the exact URL loop of detect_duplicates over url_groups
RECURSIVE ExactUrlPass(_, _, _)
ExactUrlPass(url_groups, duplicates, seen_ids) ==
    IF url_groups = <<>> THEN [duplicates |-> duplicates, seen_ids |-> seen_ids]
    ELSE LET items == url_groups[1].items
             bookmark_ids == IdsOf(items)
         IN IF Len(items) > 1 /\ ~(\E i \in 1..Len(items) : bookmark_ids[i] \in seen_ids)
            THEN ExactUrlPass(Tail(url_groups),
                              Append(duplicates, DuplicateGroup(items, "exact_url")),
                              seen_ids \cup Range(bookmark_ids))
            ELSE ExactUrlPass(Tail(url_groups), duplicates, seen_ids)

\* a title pass that keeps the items already grouped
UnseenUnfiltered(items, seen_ids) == items

\* the items of a title group that are in no group yet
Unseen(items, seen_ids) == SelectSeq(items, LAMBDA b : b.id \notin seen_ids)

\* the similar title loop of detect_duplicates over title_groups
RECURSIVE SimilarTitlePass(_, _, _)
SimilarTitlePass(title_groups, duplicates, seen_ids) ==
    IF title_groups = <<>> THEN duplicates
    ELSE LET items == Unseen(title_groups[1].items, seen_ids)
             urls == {normalize_url(items[i].url) : i \in 1..Len(items)}
         IN IF Len(title_groups[1].items) > 1 /\ Len(items) > 1 /\ Cardinality(urls) > 1
            THEN SimilarTitlePass(Tail(title_groups),
                                  Append(duplicates, DuplicateGroup(items, "similar_title")),
                                  seen_ids \cup Range(IdsOf(items)))
            ELSE SimilarTitlePass(Tail(title_groups), duplicates, seen_ids)

\* the body of detect_duplicates once the snapshot is there
DuplicatesOf(snapshot) ==
    IF snapshot = <<>> THEN <<>>
    ELSE LET url_groups ==
                 GroupBy(snapshot, [i \in 1..Len(snapshot) |-> UrlKey(snapshot[i])], <<>>)
             title_groups ==
                 GroupBy(snapshot, [i \in 1..Len(snapshot) |-> TitleKey(snapshot[i])], <<>>)
             exact == ExactUrlPass(url_groups, <<>>, {})
         IN SimilarTitlePass(title_groups, exact.duplicates, exact.seen_ids)

\* a detection that deletes from the index all but the first bookmark of
\* every group it reports
DetectDuplicatesPruning ==
    /\ Idle
    /\ HoldsStore
    /\ \E e \in EnsureOutcomes :
        /\ client' = e.client
        /\ coll' = e.coll
        /\ made' = MadeAfter(e)
        /\ IF ~e.ok
           THEN /\ ret' = [op |-> "detect_duplicates", raised |-> FALSE,
                           snapshot |-> <<>>, result |-> <<>>]
                /\ entries' = entries
           ELSE \E ids \in {<<>>} \cup QueryIds(entries, DuplicateSampleSize, None) :
                LET answer == BookmarksWithScores(entries, ids, [i \in 1..Len(ids) |-> 0])
                    snapshot == [i \in 1..Len(answer) |-> answer[i].bookmark]
                    result == DuplicatesOf(snapshot)
                    extra == UNION {Range(Tail(result[g].bookmark_ids)) : g \in 1..Len(result)}
                IN /\ ret' = [op |-> "detect_duplicates", raised |-> FALSE,
                              snapshot |-> snapshot, result |-> result]
                   /\ entries' = [id \in DOMAIN entries \ extra |-> entries[id]]
    /\ UNCHANGED <<dup_policy, filter_support, vector_store, add, chat>>
    /\ UNCHANGED parserVars
    /\ UNCHANGED serviceVars

\* AIAnalyzer.detect_duplicates: search("*", top_k=500) inside try/except; the
\* scores of the answer are not read
DetectDuplicates ==
    /\ Idle
    /\ HoldsStore
    /\ \E e \in EnsureOutcomes :
        /\ client' = e.client
        /\ coll' = e.coll
        /\ made' = MadeAfter(e)
        /\ IF ~e.ok
           THEN ret' = [op |-> "detect_duplicates", raised |-> FALSE,
                        snapshot |-> <<>>, result |-> <<>>]
           ELSE \E ids \in {<<>>} \cup QueryIds(entries, DuplicateSampleSize, None) :
                LET answer == BookmarksWithScores(entries, ids, [i \in 1..Len(ids) |-> 0])
                    snapshot == [i \in 1..Len(answer) |-> answer[i].bookmark]
                IN ret' = [op |-> "detect_duplicates", raised |-> FALSE,
                           snapshot |-> snapshot, result |-> DuplicatesOf(snapshot)]
    /\ UNCHANGED <<entries, dup_policy, filter_support, vector_store, add, chat>>
    /\ UNCHANGED parserVars
    /\ UNCHANGED serviceVars

----------------------------------------------------------------------------
(* AIAnalyzer.analyze_categories.  A reply of the generation capability is  *)
(* what re.search and json.loads make of it: no bracketed text, bracketed  *)
(* text that is no JSON, or an array of items.                              *)

AnalysisSampleSize == 200

\* an item of the array: an object with the keys title and suggested_folder
\* (current_folder and reason left out), or something that is no object (a
\* string, a number)
JsonObject(title, suggested_folder) ==
    [kind |-> "object", title |-> title, suggested_folder |-> suggested_folder]

JsonString == [kind |-> "string", title |-> <<>>, suggested_folder |-> <<>>]

Items == {JsonObject(B1.title, <<"/", "Mail", "/">>),
          JsonObject(<<"Nope">>, <<"/", "Mail", "/">>),
          JsonString}

Replies ==
    {[bracketed |-> FALSE, json |-> FALSE, data |-> <<>>],
     [bracketed |-> TRUE, json |-> FALSE, data |-> <<>>]}
    \cup {[bracketed |-> TRUE, json |-> TRUE, data |-> data] : data \in SeqsUpTo(Items, MaxList)}

\* bookmarks_list of analyze_categories
BookmarksListOf(all_results) ==
    [i \in 1..Len(all_results) |->
        [id |-> all_results[i].bookmark.id,
         title |-> all_results[i].bookmark.title,
         url |-> all_results[i].bookmark.url,
         folder |-> IF all_results[i].bookmark.folder_path = <<>> THEN <<"/">>
                    ELSE all_results[i].bookmark.folder_path]]

\* title_to_bookmark: the last bookmark of a title is the one kept
TitleToBookmark(bookmarks) ==
    [t \in {bookmarks[i].title : i \in 1..Len(bookmarks)} |->
        bookmarks[CHOOSE i \in 1..Len(bookmarks) :
                    /\ bookmarks[i].title = t
                    /\ \A k \in 1..Len(bookmarks) : bookmarks[k].title = t => k <= i]]

CategorySuggestion(bookmark, item) ==
    [bookmark_id |-> bookmark.id,
     bookmark_title |-> item.title,
     bookmark_url |-> bookmark.url,
     current_folder |-> bookmark.folder,
     suggested_folder |-> item.suggested_folder,
     confidence |-> "0.8"]

\* the loop over data of _parse_category_suggestions: item.get raises for
\* an item that is no object, the except clause logs, and the suggestions
\* appended so far are what the function returns
RECURSIVE SuggestionsFrom(_, _, _)
SuggestionsFrom(data, title_to_bookmark, suggestions) ==
    IF data = <<>> THEN suggestions
    ELSE IF data[1].kind # "object" THEN suggestions
    ELSE SuggestionsFrom(Tail(data), title_to_bookmark,
            IF data[1].title \in DOMAIN title_to_bookmark
            THEN Append(suggestions,
                        CategorySuggestion(title_to_bookmark[data[1].title], data[1]))
            ELSE suggestions)

\* AIAnalyzer._parse_category_suggestions
parse_category_suggestions(response, bookmarks) ==
    IF ~response.bracketed THEN <<>>
    ELSE IF ~response.json THEN <<>>
    ELSE SuggestionsFrom(response.data, TitleToBookmark(bookmarks), <<>>)

\* analyze_categories up to its await: the search for all bookmarks
AnalyzeRetrieve(provider) ==
    /\ Idle
    /\ HoldsStore
    /\ analysis.pc = "idle"
    /\ \E o \in SearchOutcomes(<<"*">>, AnalysisSampleSize, None) :
        /\ client' = o.client
        /\ coll' = o.coll
        /\ made' = MadeAfter(o.ensured)
        /\ IF o.raised \/ o.result = <<>>
           THEN /\ analysis' = analysis
                /\ ret' = [op |-> "analyze_categories", raised |-> FALSE,
                           asked |-> FALSE, reply |-> None, bookmarks |-> <<>>,
                           result |-> <<>>]
           ELSE /\ analysis' = [pc |-> "generate", provider |-> provider,
                                bookmarks_list |-> BookmarksListOf(o.result)]
                /\ ret' = ret
    /\ UNCHANGED <<entries, dup_policy, filter_support, vector_store, add, chat>>
    /\ UNCHANGED parserVars
    /\ UNCHANGED <<adapterVars, storageVars, configVars>>

\* analyze_categories from its await on: the reply is parsed, an exception
\* of the adapter is logged and gives no suggestions
AnalyzeGenerate ==
    /\ Idle
    /\ analysis.pc = "generate"
    /\ \E g \in LlmOutcomes(analysis.provider) :
        /\ IF g.raised
           THEN ret' = [op |-> "analyze_categories", raised |-> FALSE, asked |-> TRUE,
                        reply |-> None, bookmarks |-> analysis.bookmarks_list,
                        result |-> <<>>]
           ELSE \E reply \in Replies :
                  ret' = [op |-> "analyze_categories", raised |-> FALSE, asked |-> TRUE,
                          reply |-> Some(reply), bookmarks |-> analysis.bookmarks_list,
                          result |-> parse_category_suggestions(reply,
                                                                analysis.bookmarks_list)]
        /\ active_connections' =
              ActiveAfter(active_connections, ProviderName(analysis.provider), g.kind)
        /\ last_provider' =
              LastAfter(last_provider, ProviderName(analysis.provider), g.invoked)
    /\ analysis' = [pc |-> "idle"]
    /\ UNCHANGED <<client, coll, entries, dup_policy, filter_support,
                   vector_store, made, add, chat>>
    /\ UNCHANGED parserVars
    /\ UNCHANGED <<storageVars, configVars>>

----------------------------------------------------------------------------
(* ChatStorage: the tables sessions and messages.  An id is the number of   *)
(* the draw that made it (the ids, cut from a uuid4, are taken never to     *)
(* repeat); 0 is an id never drawn.                                         *)
(* The connections never issue PRAGMA foreign_keys = ON, so SQLite does     *)
(* not enforce the FOREIGN KEY clause of messages.                          *)

Roles == {"user", "assistant"}

SessionIds == 0..MaxRows

\* ChatStorage.create_session
CreateSession ==
    /\ Idle
    /\ next_id < MaxRows
    /\ next_id' = next_id + 1
    /\ sessions' = sessions \cup {next_id + 1}
    /\ messages' = messages
    /\ ret' = [op |-> "create_session", session_id |-> next_id + 1,
               existed |-> FALSE, result |-> TRUE]
    /\ UNCHANGED <<client, coll, entries, dup_policy, filter_support,
                   vector_store, made, add, chat>>
    /\ UNCHANGED parserVars
    /\ UNCHANGED <<analysis, adapterVars, configVars>>

\* ChatStorage.add_message: INSERT INTO messages, then UPDATE sessions,
\* which changes no row when the session is not there
AddMessage(session_id, role) ==
    /\ Idle
    /\ next_id < MaxRows
    /\ next_id' = next_id + 1
    /\ messages' = messages \cup {[id |-> next_id + 1, session_id |-> session_id,
                                    role |-> role]}
    /\ sessions' = sessions
    /\ ret' = [op |-> "add_message", session_id |-> session_id,
               existed |-> session_id \in sessions, result |-> TRUE]
    /\ UNCHANGED <<client, coll, entries, dup_policy, filter_support,
                   vector_store, made, add, chat>>
    /\ UNCHANGED parserVars
    /\ UNCHANGED <<analysis, adapterVars, configVars>>

\* ChatStorage.delete_session: both DELETE statements, then the rowcount of
\* the second
DeleteSession(session_id) ==
    /\ Idle
    /\ messages' = {m \in messages : m.session_id # session_id}
    /\ sessions' = sessions \ {session_id}
    /\ next_id' = next_id
    /\ ret' = [op |-> "delete_session", session_id |-> session_id,
               existed |-> session_id \in sessions,
               result |-> Cardinality(sessions \cap {session_id}) > 0]
    /\ UNCHANGED <<client, coll, entries, dup_policy, filter_support,
                   vector_store, made, add, chat>>
    /\ UNCHANGED parserVars
    /\ UNCHANGED <<analysis, adapterVars, configVars>>

\* ChatStorage.clear_all_sessions
ClearAllSessions ==
    /\ Idle
    /\ messages' = {}
    /\ sessions' = {}
    /\ next_id' = next_id
    /\ ret' = [op |-> "clear_all_sessions", session_id |-> 0, existed |-> FALSE,
               result |-> Cardinality(sessions) > 0]
    /\ UNCHANGED <<client, coll, entries, dup_policy, filter_support,
                   vector_store, made, add, chat>>
    /\ UNCHANGED parserVars
    /\ UNCHANGED <<analysis, adapterVars, configVars>>

----------------------------------------------------------------------------
(* ConfigManager: API keys, stored encrypted, with the environment behind   *)
(* them.  A Fernet token is the plaintext sealed with the key of the        *)
(* Fernet object that made it.                                              *)

encryption_key == "key-of-this-installation"

Encrypt(fernet, plaintext) == [sealed_with |-> fernet, plaintext |-> plaintext]

\* _decrypt: the plaintext, or "" when Fernet rejects the token
Decrypt(fernet, ciphertext) ==
    IF ciphertext.sealed_with = fernet THEN ciphertext.plaintext ELSE ""

PROVIDER_NAMES == {"openai", "deepseek", "kimi", "qwen", "claude", "gemini", "glm", "ollama"}

\* get_api_key's env_map, as the pairs <<provider, variable>>
env_map ==
    { <<"openai", "OPENAI_API_KEY">>, <<"deepseek", "DEEPSEEK_API_KEY">>,
      <<"kimi", "KIMI_API_KEY">>, <<"qwen", "QWEN_API_KEY">>,
      <<"claude", "CLAUDE_API_KEY">>, <<"gemini", "GEMINI_API_KEY">>,
      <<"glm", "GLM_API_KEY">>, <<"ollama", "OLLAMA_BASE_URL">> }

\* the variables the runs set or leave unset; every other one is unset
EnvVariables == {"OPENAI_API_KEY", "OLLAMA_BASE_URL"}

\* os.getenv
getenv(env, name) == IF name \in DOMAIN env THEN env[name] ELSE None

ConfigProviders == {"openai", "ollama", "nonesuch"}

ApiKeys == {"sk-1", "sk-2", ""}

Environments == [EnvVariables -> {None, Some("env-key")}]

\* a get_api_key that looks at the environment first
get_api_key_environment_first(keys, env, provider) ==
    LET env_key == {pair[2] : pair \in {pair \in env_map : pair[1] = provider}}
        value == IF env_key = {} THEN None ELSE getenv(env, CHOOSE name \in env_key : TRUE)
    IN IF value # None THEN value
       ELSE IF provider \in DOMAIN keys
       THEN Some(Decrypt(encryption_key, keys[provider]))
       ELSE None

\* ConfigManager.get_api_key: the row of api_keys, else the environment
\* variable env_map names for the provider, else None
get_api_key(keys, env, provider) ==
    LET env_key == {pair[2] : pair \in {pair \in env_map : pair[1] = provider}}
    IN IF provider \in DOMAIN keys
       THEN Some(Decrypt(encryption_key, keys[provider]))
       ELSE IF env_key # {} THEN getenv(env, CHOOSE name \in env_key : TRUE)
       ELSE None

GetApiKey(provider) ==
    /\ Idle
    /\ ret' = [op |-> "get_api_key", provider |-> provider,
               result |-> get_api_key(api_keys, environ, provider)]
    /\ UNCHANGED <<client, coll, entries, dup_policy, filter_support,
                   vector_store, made, add, chat>>
    /\ UNCHANGED parserVars
    /\ UNCHANGED <<analysis, adapterVars, storageVars, configVars>>

\* ConfigManager.set_api_key: INSERT OR REPLACE of the encrypted key
SetApiKey(provider, api_key) ==
    /\ Idle
    /\ IF provider \notin PROVIDER_NAMES
       THEN /\ ret' = [op |-> "set_api_key", provider |-> provider, result |-> Some(FALSE)]
            /\ UNCHANGED <<api_keys, last_set>>
       ELSE /\ api_keys' = [p \in DOMAIN api_keys \cup {provider} |->
                               IF p = provider THEN Encrypt(encryption_key, api_key)
                               ELSE api_keys[p]]
            /\ last_set' = [last_set EXCEPT ![provider] = Some(api_key)]
            /\ ret' = [op |-> "set_api_key", provider |-> provider, result |-> Some(TRUE)]
    /\ UNCHANGED environ
    /\ UNCHANGED <<client, coll, entries, dup_policy, filter_support,
                   vector_store, made, add, chat>>
    /\ UNCHANGED parserVars
    /\ UNCHANGED <<analysis, adapterVars, storageVars>>

\* ConfigManager.delete_api_key
DeleteApiKey(provider) ==
    /\ Idle
    /\ api_keys' = [p \in DOMAIN api_keys \ {provider} |-> api_keys[p]]
    /\ last_set' = [last_set EXCEPT ![provider] = None]
    /\ ret' = [op |-> "delete_api_key", provider |-> provider,
               result |-> Some(provider \in DOMAIN api_keys)]
    /\ UNCHANGED environ
    /\ UNCHANGED <<client, coll, entries, dup_policy, filter_support,
                   vector_store, made, add, chat>>
    /\ UNCHANGED parserVars
    /\ UNCHANGED <<analysis, adapterVars, storageVars>>

----------------------------------------------------------------------------
(* Specifications *)

InitParser ==
    /\ html_content = <<>>
    /\ bookmarks_count = 0
    /\ folders_count = 0
    /\ parsed = None

InitStore ==
    /\ client = FALSE
    /\ coll = FALSE
    /\ entries = EmptyCollection
    /\ dup_policy \in {"overwrite", "raise"}
    /\ filter_support \in {"substring", "rejected"}
    /\ ret = [op |-> "none"]
    /\ vector_store = None
    /\ made = [instance |-> 0, client |-> 0, coll |-> 0]
    /\ add = [pc |-> "idle"]

InitChat == chat = [pc |-> "idle"]

InitServices ==
    /\ analysis = [pc |-> "idle"]
    /\ active_connections = [n \in {} |-> ""]
    /\ last_provider = None
    /\ sessions = {}
    /\ messages = {}
    /\ next_id = 0
    /\ api_keys = [p \in {} |-> None]
    /\ last_set = [p \in ConfigProviders |-> None]

\* no key in the environment
InitEnviron == environ = [name \in EnvVariables |-> None]

Init == InitParser /\ InitStore /\ InitChat /\ InitServices /\ InitEnviron

\* the parser
NextParser == EditDocument \/ Parse

SpecParser == Init /\ [][NextParser]_vars

\* the parser on documents of dated links
NextDated == EditDatedDocument \/ Parse

\* the index is not used here: one policy of the store is enough
InitDated == Init /\ dup_policy = "overwrite" /\ filter_support = "substring"

SpecDated == InitDated /\ [][NextDated]_vars

\* the index and its readers
Next ==
    \/ \E bookmarks \in BookmarkLists, replace \in BOOLEAN : AddBookmarks(bookmarks, replace)
    \/ DeleteAll
    \/ GetCount
    \/ \E query \in Queries, top_k \in 1..MaxTopK, folder_filter \in FolderFilters :
           Search(query, top_k, folder_filter)
    \/ \E query \in Queries, top_k \in 1..MaxTopK, folder_filter \in FolderFilters :
           RagSearch(query, top_k, folder_filter)
    \/ DetectDuplicates
    \/ GetVectorStore
    \/ Respond

Spec == Init /\ [][Next]_vars

\* a bulk import that other callers of the same VectorStore do not wait for
NextImport ==
    \/ GetVectorStore
    \/ \E bookmarks \in BulkLists, replace \in BOOLEAN : AddCall(bookmarks, replace)
    \/ AddClear
    \/ AddBuild
    \/ AddBatch
    \/ AddReturn
    \/ AddRespond
    \/ \E top_k \in 1..MaxTopK : Search(<<>>, top_k, Some(<<"/", "W", "/">>))
    \/ Respond

\* the imports that go on while questions are answered: one bookmark in a
\* folder, one at the top
ChatImports == SeqsUpTo({B1, B4}, MaxList)

\* questions answered from the index while imports go on
NextChat ==
    \/ GetVectorStore
    \/ \E bookmarks \in ChatImports, replace \in BOOLEAN : AddBookmarks(bookmarks, replace)
    \/ \E message \in Queries, provider \in ProviderArguments,
          include_sources \in BOOLEAN, top_k \in 1..MaxTopK :
           ChatRetrieve(message, provider, include_sources, top_k)
    \/ ChatGenerate
    \/ Respond

\* chat passes no folder filter to search
InitAnswering == Init /\ filter_support = "substring"

SpecChat == InitAnswering /\ [][NextChat]_vars

\* documents imported one after the other
NextIngest ==
    \/ GetVectorStore
    \/ \E markup \in {None} \cup {Some(d) : d \in IngestDocuments}, replace \in BOOLEAN :
           ImportBookmarks(markup, replace)
    \/ Respond

SpecIngest == InitAnswering /\ [][NextIngest]_vars

\* callers of the chat storage, one after the other
NextStorage ==
    \/ CreateSession
    \/ \E session_id \in SessionIds, role \in Roles : AddMessage(session_id, role)
    \/ \E session_id \in SessionIds : DeleteSession(session_id)
    \/ ClearAllSessions
    \/ Respond

\* the index is not used here: one policy of the store is enough
InitStorage == InitAnswering /\ dup_policy = "overwrite"

SpecStorage == InitStorage /\ [][NextStorage]_vars

\* callers of the configuration manager, one after the other
NextConfig ==
    \/ \E provider \in ConfigProviders : GetApiKey(provider)
    \/ \E provider \in ConfigProviders, api_key \in ApiKeys : SetApiKey(provider, api_key)
    \/ \E provider \in ConfigProviders : DeleteApiKey(provider)
    \/ Respond

\* any environment; the index is not used here
InitConfig ==
    /\ InitParser /\ InitStore /\ InitChat /\ InitServices
    /\ dup_policy = "overwrite" /\ filter_support = "substring"
    /\ environ \in Environments

SpecConfig == InitConfig /\ [][NextConfig]_vars

\* callers of the adapter, one after the other
AdapterArguments == ProviderArguments \cup {Some("kimi")}

NextAdapter ==
    \/ \E provider \in AdapterArguments : LlmChat(provider)
    \/ Respond

\* the index is not used here: one policy of the store is enough
InitAdapter == InitAnswering /\ dup_policy = "overwrite"

SpecAdapter == InitAdapter /\ [][NextAdapter]_vars

\* the analyzer asking for category suggestions
NextAnalyze ==
    \/ GetVectorStore
    \/ \E bookmarks \in ChatImports, replace \in BOOLEAN : AddBookmarks(bookmarks, replace)
    \/ \E provider \in ProviderArguments : AnalyzeRetrieve(provider)
    \/ AnalyzeGenerate
    \/ Respond

SpecAnalyze == InitAnswering /\ [][NextAnalyze]_vars

\* no bulk list repeats an id, so the treatment of repeated ids plays no part
InitImport == Init /\ dup_policy = "overwrite"

SpecImport == InitImport /\ [][NextImport]_vars

----------------------------------------------------------------------------
(* Properties of the parser, checked under SpecParser *)

ParsedBookmarks == IF parsed = None THEN <<>> ELSE get_all_bookmarks(parsed[1])

\* C1: in every Collection returned by parse, each bookmark's folder_path is
\* the path of exactly one folder node reachable from the root, and the
\* paths of the folder nodes are pairwise distinct
C1_FolderPathOfOneNode ==
    parsed # None =>
        LET paths == FolderPaths(parsed[1].root)
        IN /\ \A i \in 1..Len(ParsedBookmarks) :
                Cardinality({k \in 1..Len(paths) :
                                paths[k] = ParsedBookmarks[i].folder_path}) = 1
           /\ \A k, m \in 1..Len(paths) : k # m => paths[k] # paths[m]

\* C7 as stated: two parsed bookmarks whose URLs have the same normalized form
\* have the same id
C7_SameNormalizedUrlSameId ==
    \A i, j \in 1..Len(ParsedBookmarks) :
        normalize_url(ParsedBookmarks[i].url) = normalize_url(ParsedBookmarks[j].url)
            => ParsedBookmarks[i].id = ParsedBookmarks[j].id

\* C7 amended: two parsed bookmarks with the same URL string have the same
\* id, wherever the links stand in the document
C7_SameUrlSameId ==
    \A i, j \in 1..Len(ParsedBookmarks) :
        ParsedBookmarks[i].url = ParsedBookmarks[j].url
            => ParsedBookmarks[i].id = ParsedBookmarks[j].id

C7_TwoLinksOneUrl ==
    \E i, j \in 1..Len(ParsedBookmarks) :
        /\ i < j
        /\ ParsedBookmarks[i].url = ParsedBookmarks[j].url
        /\ ParsedBookmarks[i].id = Md5Hex16(U1)

\* C20: whatever parse calls came before on the same parser, the Collection
\* a parse returns has total_bookmarks equal to the number of bookmarks it
\* holds, no more than the links of the document, and the counter of the
\* parser says the same
C20_TotalIsNumberHeld ==
    parsed # None =>
        /\ parsed[1].total_bookmarks = Len(get_all_bookmarks(parsed[1]))
        /\ bookmarks_count = parsed[1].total_bookmarks
        /\ parsed[1].total_bookmarks <= Len(FindAllLinks(html_content))

C20_ParsedAgainAfterMoreLinks ==
    /\ parsed # None
    /\ parsed[1].total_bookmarks = 2
    /\ Len(get_all_bookmarks(parsed[1])) = 2
    /\ \E k \in 1..Len(html_content) :
          IsLink(html_content[k]) /\ html_content[k].href = Some(EmptyUrl)

\* the Collection held is the one parse returns for the document as it is
ParsedCurrent == parsed = Some(ParseResult(html_content))

Headings(d) == {i \in 1..Len(d) : d[i].name = "h3"}

\* the h3 elements of d that stand inside the child list of folder h3
SubfoldersOf(d, h3) ==
    {m \in Headings(d) :
        \E dl \in AncestorsOf(d, m) :
            /\ d[dl].name = "dl"
            /\ PreviousDt(d, dl) # 0
            /\ FindH3(d, PreviousDt(d, dl)) = h3}

\* C21: parse counts every folder of the document once in total_folders,
\* whether or not a child list follows the folder and whether or not the
\* list holds anything; a folder with no bookmark whose one subfolder is
\* empty gives total_folders 2 and total_bookmarks 0
C21_EveryFolderCountedOnce ==
    ParsedCurrent =>
        /\ parsed[1].total_folders = Cardinality(Headings(html_content))
        /\ folders_count = parsed[1].total_folders
        /\ (\A i \in 1..Len(html_content) : html_content[i].name # "a")
              => /\ parsed[1].total_bookmarks = 0
                 /\ get_all_bookmarks(parsed[1]) = <<>>

C21_FolderWithEmptySubfolder ==
    /\ ParsedCurrent
    /\ \A i \in 1..Len(html_content) : html_content[i].name # "a"
    /\ \E w, z \in Headings(html_content) :
          /\ w # z
          /\ Headings(html_content) = {w, z}
          /\ SubfoldersOf(html_content, w) = {z}
          /\ SubfoldersOf(html_content, z) = {}
          /\ ~\E k \in (z + 1)..Len(html_content) : html_content[k].name = "dl"
    /\ parsed[1].total_folders = 2
    /\ parsed[1].total_bookmarks = 0

\* C22: parsing a document with no list element gives a Collection with
\* total_bookmarks 0, total_folders 0 and no bookmarks, whatever links and
\* headings the document holds outside a list
C22_NoListNothingParsed ==
    (ParsedCurrent /\ \A i \in 1..Len(html_content) : html_content[i].name # "dl") =>
        /\ parsed[1].total_bookmarks = 0
        /\ parsed[1].total_folders = 0
        /\ get_all_bookmarks(parsed[1]) = <<>>

----------------------------------------------------------------------------
(* Properties of the dates of links, checked under SpecDated *)

\* the links of the document that carry a non-empty address
Addressed(d) == SelectSeq(FindAllLinks(d), LAMBDA a : d[a].href[1] # EmptyUrl)

\* an ADD_DATE that is no number, or a number whose seconds no datetime holds
Malformed(str) ==
    /\ str # <<>>
    /\ \/ ~IsIntLiteral(str)
       \/ LET read == IntOf(str)
              seconds == IF Len(read.digits) > 10 /\ ~read.neg
                         THEN FloorDiv1000(read) ELSE read
          IN BigLess(DatetimeMax, seconds) \/ BigLess(seconds, DatetimeMin)

\* C23: parse returns one bookmark for every link with a non-empty address,
\* in document order, and none for the links without; the bookmark of a
\* link whose add-date is malformed has no add_date
C23_MalformedDateKeepsBookmark ==
    ParsedCurrent =>
        LET d == html_content
            kept == Addressed(d)
            bookmarks == get_all_bookmarks(parsed[1])
        IN /\ Len(bookmarks) = Len(kept)
           /\ \A k \in 1..Len(kept) :
                 k <= Len(bookmarks) =>
                    /\ bookmarks[k].url = d[kept[k]].href[1]
                    /\ Malformed(d[kept[k]].add_date) => bookmarks[k].add_date = None

\* the seconds the claim speaks of: 10,000,000 <= s <= 9,999,999,999
InSecondsRange(str) ==
    /\ IsIntLiteral(str) /\ ~IntOf(str).neg
    /\ Len(IntOf(str).digits) \in 8..10

BookmarkOf(d, a) ==
    parse_bookmark(d, a, get_bookmark_folder_path(d, a, FolderMap(d)))

\* C24: for s from 10,000,000 to 9,999,999,999 the link dated 1000*s gets
\* the add_date of the link dated s, the datetime of s seconds; every
\* value above 9,999,999,999 is read as milliseconds, every other as seconds
C24_MillisecondsReadAsSeconds ==
    ParsedCurrent =>
        LET d == html_content
            kept == Addressed(d)
            bookmarks == get_all_bookmarks(parsed[1])
        IN /\ \A i, j \in Range(kept) :
                 (InSecondsRange(d[i].add_date)
                    /\ d[j].add_date = Thousand(d[i].add_date)) =>
                    /\ BookmarkOf(d, i) # None /\ BookmarkOf(d, j) # None
                    /\ BookmarkOf(d, i)[1] \in Range(bookmarks)
                    /\ BookmarkOf(d, j)[1] \in Range(bookmarks)
                    /\ BookmarkOf(d, i)[1].add_date = BookmarkOf(d, j)[1].add_date
                    /\ BookmarkOf(d, i)[1].add_date
                          = Some([timestamp |-> IntOf(d[i].add_date)])
           /\ \A i \in Range(kept) :
                 (IsIntLiteral(d[i].add_date) /\ ~Malformed(d[i].add_date)) =>
                    BookmarkOf(d, i)[1].add_date =
                        Some([timestamp |->
                                IF Len(IntOf(d[i].add_date).digits) > 10
                                THEN FloorDiv1000(IntOf(d[i].add_date))
                                ELSE IntOf(d[i].add_date)])

C24_SameDateFromBothResolutions ==
    /\ ParsedCurrent
    /\ Len(html_content) = 2
    /\ html_content[1].add_date = <<"1", "7", "0", "0", "0", "0", "0", "0", "0", "0">>
    /\ html_content[2].add_date = Thousand(html_content[1].add_date)
    /\ Len(get_all_bookmarks(parsed[1])) = 2
    /\ get_all_bookmarks(parsed[1])[1].add_date # None
    /\ get_all_bookmarks(parsed[1])[1].add_date = get_all_bookmarks(parsed[1])[2].add_date

----------------------------------------------------------------------------
(* Properties of the index, checked under Spec *)

Count(content) == Cardinality(DOMAIN content)

IdsSupplied(bookmarks) == {bookmarks[i].id : i \in 1..Len(bookmarks)}

AddReturned == ret.op = "add_bookmarks" /\ ~ret.raised

CleanReplaceReturned ==
    AddReturned /\ ret.replace /\ ~ret.clear_failed /\ ~ret.batch_failed

\* C3 as stated: after add_bookmarks(new_set, replace=True) without store
\* failure the count is len(new_set)
C3_ReplaceCountIsLength ==
    CleanReplaceReturned => Count(entries) = Len(ret.bookmarks)

\* C3 amended: after add_bookmarks(new_set, replace=True) without store
\* failure the count is the number of distinct non-empty ids in new_set
C3_ReplaceCountIsDistinctIds ==
    CleanReplaceReturned => Count(entries) = Cardinality(IdsSupplied(ret.bookmarks) \ {""})

C3_ReplacedByRepeatedId ==
    /\ CleanReplaceReturned
    /\ ret.result = 2
    /\ Count(entries) = 1

\* C10: when add_bookmarks(B, replace=True) returns, no entry remains whose
\* id is not among the ids of B
C10_ReplaceLeavesOnlySupplied ==
    (AddReturned /\ ret.replace) => DOMAIN entries \subseteq IdsSupplied(ret.bookmarks)

SearchReturned == ret.op \in {"search", "rag_search"}

\* C8: every bookmark returned by a search with a non-empty folder_filter f
\* has a folder_path that contains f
C8_FolderFilterHolds ==
    (SearchReturned /\ ~ret.raised /\ ret.folder_filter # None
        /\ ret.folder_filter[1] # <<>>) =>
            \A i \in 1..Len(ret.result) :
                Contains(ret.result[i].bookmark.folder_path, ret.folder_filter[1])

C8_FilteredSearchAnswers ==
    /\ SearchReturned /\ ~ret.raised
    /\ ret.folder_filter = Some(<<"/", "W", "/">>)
    /\ Len(ret.result) > 0
    /\ \E id \in DOMAIN entries :
           ~Contains(entries[id].metadata.folder_path, <<"/", "W", "/">>)

\* C9: search (VectorStore.search, RAGEngine.search) and detect_duplicates
\* never raise, whatever fails in the embedding store
C9_SearchAndDetectionNeverRaise ==
    (SearchReturned \/ ret.op = "detect_duplicates") => ~ret.raised

----------------------------------------------------------------------------
(* Properties of duplicate detection, checked under Spec *)

DetectReturned == ret.op = "detect_duplicates"

Members(group) == Range(group.bookmark_ids)

GroupsOfType(type) ==
    {g \in 1..Len(ret.result) : ret.result[g].similarity_type = type}

InExactGroup(id) == \E g \in GroupsOfType("exact_url") : id \in Members(ret.result[g])

\* C4: no bookmark id is a member of two reported groups; in particular a
\* member of an exact_url group is in no similar_title group
C4_GroupsDisjoint ==
    DetectReturned =>
        \A g, h \in 1..Len(ret.result) :
            g # h => Members(ret.result[g]) \cap Members(ret.result[h]) = {}

C4_GroupedBookmarkSharesTitle ==
    /\ DetectReturned
    /\ \E g \in GroupsOfType("exact_url"), i, j \in 1..Len(ret.snapshot) :
        /\ ret.snapshot[i].id \in Members(ret.result[g])
        /\ ret.snapshot[j].id \notin Members(ret.result[g])
        /\ normalize_title(ret.snapshot[i].title) = normalize_title(ret.snapshot[j].title)

\* C5: one exact_url group per normalized URL (lower case, no scheme, no
\* "www." host prefix, no trailing path slash) that two or more snapshot
\* bookmarks share, holding all and only the bookmarks with that URL, its
\* count being the number of its members
C5_ExactGroupPerNormalizedUrl ==
    DetectReturned =>
        LET NormalizedUrl(url) ==
                LET parsed_url == Urlparse(Lower(url))
                    host == IF Len(parsed_url.netloc) > 0 /\ parsed_url.netloc[1] = "www."
                            THEN Tail(parsed_url.netloc) ELSE parsed_url.netloc
                    path == IF Len(parsed_url.path) > 0
                               /\ parsed_url.path[Len(parsed_url.path)] = "/"
                            THEN SubSeq(parsed_url.path, 1, Len(parsed_url.path) - 1)
                            ELSE parsed_url.path
                    query == IF parsed_url.query = <<>> THEN <<>>
                             ELSE <<"?">> \o parsed_url.query
                IN host \o path \o query
            Sharing(i) == {ret.snapshot[j].id : j \in
                            {k \in 1..Len(ret.snapshot) :
                                NormalizedUrl(ret.snapshot[k].url)
                                    = NormalizedUrl(ret.snapshot[i].url)}}
        IN \A i \in 1..Len(ret.snapshot) :
            Cardinality(Sharing(i)) >= 2 =>
                /\ Cardinality({g \in GroupsOfType("exact_url") :
                                  ret.snapshot[i].id \in Members(ret.result[g])}) = 1
                /\ \A g \in GroupsOfType("exact_url") :
                      ret.snapshot[i].id \in Members(ret.result[g]) =>
                          /\ Members(ret.result[g]) = Sharing(i)
                          /\ ret.result[g].count = Cardinality(Sharing(i))

\* the snapshot bookmarks whose normalized title is that of the i-th one
SameTitle(i) ==
    {j \in 1..Len(ret.snapshot) :
        normalize_title(ret.snapshot[j].title) = normalize_title(ret.snapshot[i].title)}

\* a title that is not empty, on two or more bookmarks whose normalized URLs differ
TitleShared(i) ==
    /\ normalize_title(ret.snapshot[i].title) # <<>>
    /\ Cardinality(SameTitle(i)) >= 2
    /\ Cardinality({normalize_url(ret.snapshot[j].url) : j \in SameTitle(i)}) > 1

\* the ids of the bookmarks of that title that are in no exact_url group
Ungrouped(i) == {ret.snapshot[j].id : j \in {k \in SameTitle(i) : ~InExactGroup(ret.snapshot[k].id)}}

TitleGroupsOf(i) ==
    {g \in GroupsOfType("similar_title") :
        \E j \in SameTitle(i) : ret.snapshot[j].id \in Members(ret.result[g])}

\* C6 as stated: for every such title, the bookmarks of the title that are in
\* no exact_url group form exactly one similar_title group
C6_TitleGroupAlwaysReported ==
    DetectReturned =>
        \A i \in 1..Len(ret.snapshot) :
            TitleShared(i) =>
                /\ Cardinality(TitleGroupsOf(i)) = 1
                /\ \A g \in TitleGroupsOf(i) : Members(ret.result[g]) = Ungrouped(i)

\* C6 amended: for every such title, when two or more of its bookmarks are in
\* no exact_url group they form exactly one similar_title group, and when
\* fewer are, no similar_title group is reported for the title
C6_TitleGroupOfUngrouped ==
    DetectReturned =>
        \A i \in 1..Len(ret.snapshot) :
            TitleShared(i) =>
                IF Cardinality(Ungrouped(i)) >= 2
                THEN /\ Cardinality(TitleGroupsOf(i)) = 1
                     /\ \A g \in TitleGroupsOf(i) :
                           /\ Members(ret.result[g]) = Ungrouped(i)
                           /\ ret.result[g].count = Cardinality(Ungrouped(i))
                ELSE TitleGroupsOf(i) = {}

C6_TitleGroupBesideExactGroup ==
    /\ DetectReturned
    /\ GroupsOfType("exact_url") # {}
    /\ \E g \in GroupsOfType("similar_title") : ret.result[g].count = 2

----------------------------------------------------------------------------
(* Properties of the scores, checked under Spec.  Distances are counted in *)
(* halves and scores in quarters: the score 1 is 4, the distance 2 is 4.   *)

\* C13: whatever distances the store answers with, the score of the i-th
\* result is max(0, 1 - distance/2) of the i-th distance and lies in [0, 1]
C13_ScoreIsClampedConversion ==
    (SearchReturned /\ ~ret.raised) =>
        /\ Len(ret.result) = Len(ret.distances)
        /\ \A i \in 1..Len(ret.result) :
              /\ ret.result[i].score =
                    (IF ret.distances[i] >= 4 THEN 0 ELSE 4 - ret.distances[i])
              /\ ret.result[i].score >= 0
              /\ ret.result[i].score <= 4

C13_DistanceBeyondTwo ==
    /\ SearchReturned /\ ~ret.raised
    /\ \E i \in 1..Len(ret.result) : ret.distances[i] > 4 /\ ret.result[i].score = 0

\* C14: the store answering with distances that never decrease, the results
\* of search come with scores that never increase
C14_ScoresNeverIncrease ==
    (SearchReturned /\ ~ret.raised) =>
        \A i, j \in 1..Len(ret.result) :
            i < j => ret.result[i].score >= ret.result[j].score

C14_TwoResultsTwoScores ==
    /\ SearchReturned /\ ~ret.raised
    /\ Len(ret.result) = 2
    /\ ret.distances[1] < ret.distances[2]
    /\ ret.result[1].score > ret.result[2].score

----------------------------------------------------------------------------
(* Properties of the lazily made handles, checked under Spec *)

\* C18: over any sequence of add_bookmarks, search, get_count and delete_all
\* calls one client and one collection handle are constructed, on the first
\* use that succeeds, and stay in place from then on; get_vector_store
\* constructs one VectorStore and answers with it on every call
C18_HandlesMadeOnce ==
    /\ made.instance <= 1 /\ made.client <= 1 /\ made.coll <= 1
    /\ (vector_store = None) <=> (made.instance = 0)
    /\ client <=> (made.client = 1)
    /\ coll <=> (made.coll = 1)
    /\ coll => client
    /\ ret.op = "get_vector_store" => (ret.result = 1 /\ vector_store = Some(1))
    /\ (ret.op \in {"add_bookmarks", "search", "rag_search", "get_count", "delete_all"}
            /\ ~ret.raised) => coll

C18_LaterCallOnSameHandle ==
    /\ ret.op = "get_count" /\ ~ret.raised
    /\ ret.result > 0
    /\ made = [instance |-> 1, client |-> 1, coll |-> 1]

----------------------------------------------------------------------------
(* Properties of the batch loop, checked under SpecImport *)

AddDone == add.pc = "done" /\ ~add.raised /\ add.bookmarks # <<>>

\* the sizes of the batches whose upsert succeeded, added up
RECURSIVE SizeWritten(_)
SizeWritten(writes) ==
    IF writes = <<>> THEN 0
    ELSE (IF writes[1].ok THEN Len(writes[1].ids) ELSE 0) + SizeWritten(Tail(writes))

\* the ids of the upserts issued, one after the other
RECURSIVE IdsIssued(_)
IdsIssued(writes) ==
    IF writes = <<>> THEN <<>> ELSE writes[1].ids \o IdsIssued(Tail(writes))

\* C11: a batch whose upsert fails does not make add_bookmarks raise; every
\* batch is attempted, whichever failed before it, and the result is the
\* sum of the sizes of the batches whose upsert succeeded
C11_FailedBatchIsSkippedOnly ==
    /\ (add.pc # "idle" /\ add.writes # <<>>) => ~add.raised
    /\ AddDone =>
          /\ Len(add.writes) * 100 >= Len(Rows(add.bookmarks))
          /\ (Len(add.writes) - 1) * 100 < Len(Rows(add.bookmarks))
          /\ IdsIssued(add.writes) = [k \in 1..Len(Rows(add.bookmarks)) |->
                                         Rows(add.bookmarks)[k].id]
          /\ add.result = SizeWritten(add.writes)

C11_SecondBatchAfterFailedFirst ==
    /\ AddDone
    /\ Len(add.writes) = 2
    /\ ~add.writes[1].ok /\ add.writes[2].ok
    /\ add.result = Len(add.writes[2].ids)
    /\ add.result > 0

\* C12: no upsert that add_bookmarks issues carries more than 100 entries;
\* the ids of the upserts, one after the other, are the non-empty ids of the
\* bookmarks supplied, in the order supplied
C12_BatchesOfAtMostHundred ==
    /\ add.pc # "idle" =>
          \A k \in 1..Len(add.writes) :
              Len(add.writes[k].ids) <= 100 /\ Len(add.writes[k].ids) > 0
    /\ AddDone =>
          IdsIssued(add.writes)
              = SelectSeq([k \in 1..Len(add.bookmarks) |-> add.bookmarks[k].id],
                          LAMBDA id : id # "")

C12_FullBatchAndSkippedBookmark ==
    /\ AddDone
    /\ Len(add.writes[1].ids) = 100
    /\ \E k \in 1..Len(add.bookmarks) : add.bookmarks[k].id = ""
    /\ Len(add.bookmarks) > 100

----------------------------------------------------------------------------
(* Properties of a search racing a replace, checked under SpecImport *)

----------------------------------------------------------------------------
(* Properties of chat, checked under SpecChat *)

\* the context block of a user message: what stands between the heading
\* and the question
ContextBlockOf(content) ==
    SubSeq(content, 2, FirstIn(content, {"\n\nquestion: "}, 1) - 1)

\* chat has handed its messages to the generation capability
ChatAsked == ret.op = "chat" /\ ret.request # None

ChatAnswered == ret.op = "chat" /\ ~ret.raised

\* C15: when retrieval returned no result, the user message that chat hands
\* to the generation capability has the no-results marker as its context
\* block, not an empty block, and a chat that then succeeds returns the
\* generated text with an empty source list
C15_NoResultsMarkerSent ==
    /\ (chat.pc = "generate" /\ chat.sources = <<>>) =>
          /\ chat.messages[2].role = "user"
          /\ ContextBlockOf(chat.messages[2].content) = <<"(no related bookmarks found)">>
    /\ (ChatAsked /\ ret.retrieved = Some(<<>>)) =>
          /\ ContextBlockOf(ret.request[1][2].content) = <<"(no related bookmarks found)">>
          /\ ChatAnswered =>
                /\ ret.result[1].sources = <<>>
                /\ ret.result[1].response = ret.generated[1].content

C15_AnsweredFromEmptyIndex ==
    /\ ChatAnswered
    /\ coll /\ Count(entries) = 0
    /\ ret.retrieved = Some(<<>>)
    /\ ret.result[1].response = <<"answer">>

\* C16 as stated: a chat that succeeds returns as sources the bookmarks it
\* retrieved and rendered into the context block it sent, in that order
C16_SourcesAreTheRetrieved ==
    ChatAnswered =>
        /\ ret.result[1].sources = ret.retrieved[1]
        /\ ContextBlockOf(ret.request[1][2].content) = build_context(ret.result[1].sources)

\* C16 amended: a chat that succeeds with include_sources set returns as
\* sources the bookmarks it retrieved and rendered into the context block it
\* sent, in that order; without include_sources it returns no sources
C16_SourcesAreTheRetrievedWhenAsked ==
    ChatAnswered =>
        /\ ContextBlockOf(ret.request[1][2].content) = build_context(ret.retrieved[1])
        /\ ret.include_sources =>
              /\ ret.result[1].sources = ret.retrieved[1]
              /\ ContextBlockOf(ret.request[1][2].content)
                    = build_context(ret.result[1].sources)
        /\ ~ret.include_sources => ret.result[1].sources = <<>>

C16_TwoSourcesReturned ==
    /\ ChatAnswered
    /\ ret.include_sources
    /\ Len(ret.result[1].sources) = 2
    /\ ret.result[1].sources[1].folder_path = <<"/">>
    /\ ret.result[1].sources[2].folder_path # <<"/">>

\* C17: when the provider is unknown, has no key or fails, chat raises and
\* returns nothing; no chat calls the provider more than once, and the
\* messages of that call hold the context of the retrieval done before
C17_GenerationFailureRaisedNoRetry ==
    ret.op = "chat" =>
        /\ ret.invoked <= 1
        /\ ret.outcome \in {"unknown_provider", "not_configured", "failed"} =>
              ret.raised /\ ret.result = None /\ ret.generated = None
        /\ ret.invoked = 1 =>
              /\ ret.retrieved # None /\ ret.request # None
              /\ ContextBlockOf(ret.request[1][2].content) = build_context(ret.retrieved[1])
        /\ ret.retrieved = None => ret.invoked = 0 /\ ret.raised

C17_ProviderFailedAfterRetrieval ==
    /\ ret.op = "chat" /\ ret.raised
    /\ ret.outcome = "failed"
    /\ ret.invoked = 1
    /\ ret.retrieved # None /\ Len(ret.retrieved[1]) > 0

----------------------------------------------------------------------------
(* Properties of the analyzer, checked under Spec *)

\* C25: a detect_duplicates call leaves the index as it found it: the
\* stored ids, document texts and metadata, and with them the count, are
\* after the call what they were before it, whatever groups it reports
C25_DetectionLeavesIndex ==
    [][(ret.op = "none" /\ ret'.op = "detect_duplicates") =>
          /\ entries' = entries
          /\ Cardinality(DOMAIN entries') = Cardinality(DOMAIN entries)]_vars

C25_GroupReportedAllStillStored ==
    /\ ret.op = "detect_duplicates"
    /\ Len(ret.result) >= 1
    /\ Len(ret.result[1].bookmark_ids) >= 2
    /\ \A g \in 1..Len(ret.result) : Range(ret.result[g].bookmark_ids) \subseteq DOMAIN entries

\* C26: when the reply holds no parsable JSON array, or an array with an
\* item that is no object, analyze_categories returns no suggestion and
\* does not raise
C26_MalformedReplyNoSuggestions ==
    (ret.op = "analyze_categories" /\ ret.reply # None) =>
        LET reply == ret.reply[1]
            malformed == \/ ~reply.bracketed
                         \/ ~reply.json
                         \/ \E i \in 1..Len(reply.data) : reply.data[i].kind # "object"
        IN malformed => ~ret.raised /\ ret.result = <<>>

----------------------------------------------------------------------------
(* Properties of the adapter, checked under SpecAdapter *)

\* C27: when LLMAdapter.chat calls a provider other than the one the
\* adapter called last, it has closed the connections of that last
\* provider before the call
C27_PreviousProviderClosedOnSwitch ==
    (/\ ret.op = "llm_chat"
     /\ ret.invoked > 0
     /\ ret.previous # None
     /\ ret.previous[1] # ret.provider_name) => ret.previous[1] \in ret.closed

----------------------------------------------------------------------------
(* Properties of the import, checked under SpecIngest *)

\* C28: an import of a document with no bookmark that returns has, with
\* replace, deleted every entry of the index and imported 0, and without
\* replace left the index as it was; an import whose parse raises leaves
\* the index as it was in both modes
C28_EmptyImportClearsOnlyOnReplace ==
    ret.op = "import_bookmarks" =>
        /\ ret.parse_raised => entries = ret.before
        /\ (~ret.raised /\ ret.bookmarks = <<>> /\ ret.replace) =>
              /\ entries = EmptyCollection
              /\ ret.result[1][1] = 0
        /\ (~ret.raised /\ ret.bookmarks = <<>> /\ ~ret.replace) =>
              /\ entries = ret.before
              /\ ret.result[1][1] = 0

----------------------------------------------------------------------------
(* Properties of the chat storage, checked under SpecStorage *)

\* C29: every stored message belongs to a stored session; delete_session
\* leaves neither the session nor a message of it and returns True exactly
\* when the session was there
C29_NoOrphanMessages ==
    /\ \A m \in messages : m.session_id \in sessions
    /\ ret.op = "delete_session" =>
          /\ ret.session_id \notin sessions
          /\ \A m \in messages : m.session_id # ret.session_id
          /\ ret.result = ret.existed

----------------------------------------------------------------------------
(* Properties of the configuration manager, checked under SpecConfig *)

VariableOf(provider) ==
    IF provider = "openai" THEN "OPENAI_API_KEY" ELSE "OLLAMA_BASE_URL"

\* C30: get_api_key of a known provider returns the key set last while one
\* is stored, whatever the environment holds, and the value of the
\* environment otherwise; set_api_key of an unknown provider returns False
\* and no key is ever stored for one
C30_StoredKeyBeforeEnvironment ==
    /\ \A p \in DOMAIN api_keys : p \in PROVIDER_NAMES /\ last_set[p] # None
    /\ \A p \in ConfigProviders : last_set[p] # None => p \in DOMAIN api_keys
    /\ (ret.op = "get_api_key" /\ ret.provider \in PROVIDER_NAMES) =>
          ret.result = IF last_set[ret.provider] # None THEN last_set[ret.provider]
                       ELSE environ[VariableOf(ret.provider)]
    /\ (ret.op = "set_api_key" /\ ret.provider \notin PROVIDER_NAMES) =>
          ret.result = Some(FALSE)

C30_SecondKeyReadOverEnvironment ==
    /\ ret.op = "get_api_key"
    /\ ret.provider = "openai"
    /\ environ["OPENAI_API_KEY"] = Some("env-key")
    /\ ret.result = Some("sk-2")
    /\ environ["OLLAMA_BASE_URL"] = Some("env-key") /\ "ollama" \notin DOMAIN api_keys

====
